---- MODULE Spec2Model ----
(***************************************************************************)
(* Model of the liquidity gap engine (analytics/liquidity.py) and of the   *)
(* enumerations of models/positions.py it reads.                           *)
(*                                                                         *)
(* Encodings.  Decimal amounts and FX rates are integers.  Dates are day   *)
(* numbers, so (maturity_date - as_of_date).days is a subtraction.  An     *)
(* Optional value is a sequence of length 0 (None) or 1 (the value).  A    *)
(* DataFrame is a record [index, columns, cell]: the row labels in order,  *)
(* the column labels in order, and the cell of every <<row, column>>.      *)
(* A quotient is kept as the pair [num, den]; float('inf') is 1/0.         *)
(***************************************************************************)
EXTENDS Integers, Sequences, FiniteSets, TLC

None == <<>>
Some(x) == <<x>>
NaN == "NaN"

Range(s) == {s[i] : i \in 1..Len(s)}

\* F applied to the value of v: v is computed once, however often F uses it.
Let(v, F(_)) == CHOOSE r \in {F(x) : x \in {v}} : TRUE

(***************************************************************************)
(* Enumerations of models/positions.py.  Config.use_enum_values stores the *)
(* member's value (a string) in the position.                              *)
(***************************************************************************)
InstrumentType ==
    {"loan_corporate", "loan_retail", "deposit_corporate", "deposit_retail",
     "bond", "equity", "cash", "other"}

Currency == {"RUB", "USD", "EUR", "CNY", "GBP"}

DEFAULT_FX_RATES ==
    [c \in {"RUB", "USD", "EUR", "CNY"} |->
        CASE c = "RUB" -> 1
          [] c = "USD" -> 95
          [] c = "EUR" -> 105
          [] c = "CNY" -> 13]

(***************************************************************************)
(* _define_buckets: (bucket_name, days_from, days_to), days_to = None is   *)
(* infinity.                                                               *)
(***************************************************************************)
Bucket(n, f, t) == [name |-> n, days_from |-> f, days_to |-> t]

define_buckets ==
    << Bucket("Overnight", 0, Some(0)),
       Bucket("1-7 days", 1, Some(7)),
       Bucket("8-30 days", 8, Some(30)),
       Bucket("1-3 months", 31, Some(90)),
       Bucket("3-6 months", 91, Some(180)),
       Bucket("6-12 months", 181, Some(365)),
       Bucket("1-2 years", 366, Some(730)),
       Bucket("2-3 years", 731, Some(1095)),
       Bucket("3-5 years", 1096, Some(1825)),
       Bucket("5+ years", 1826, None) >>

(***************************************************************************)
(* _get_bucket: the for loop over self.buckets, first match returns; the   *)
(* fall-through returns 'Overdue'.                                         *)
(***************************************************************************)
RECURSIVE BucketLoopStrict(_, _, _)
BucketLoopStrict(bs, i, d) ==
    IF i > Len(bs) THEN "Overdue"
    ELSE IF bs[i].days_to = None
         THEN IF d >= bs[i].days_from THEN bs[i].name
              ELSE BucketLoopStrict(bs, i + 1, d)
         ELSE IF bs[i].days_from < d /\ d <= bs[i].days_to[1] THEN bs[i].name
              ELSE BucketLoopStrict(bs, i + 1, d)

RECURSIVE BucketLoop(_, _, _)
BucketLoop(bs, i, d) ==
    IF i > Len(bs) THEN "Overdue"
    ELSE IF bs[i].days_to = None
         THEN IF d >= bs[i].days_from THEN bs[i].name
              ELSE BucketLoop(bs, i + 1, d)
         ELSE IF bs[i].days_from <= d /\ d <= bs[i].days_to[1] THEN bs[i].name
              ELSE BucketLoop(bs, i + 1, d)

get_bucket_overdue_as_overnight(buckets, days_to_maturity) ==
    IF days_to_maturity = None THEN "5+ years"
    ELSE IF days_to_maturity[1] < 0 THEN "Overnight"
    ELSE BucketLoop(buckets, 1, days_to_maturity[1])

get_bucket(buckets, days_to_maturity) ==
    IF days_to_maturity = None THEN "5+ years"
    ELSE BucketLoop(buckets, 1, days_to_maturity[1])

(***************************************************************************)
(* _calculate_days_to_maturity                                             *)
(***************************************************************************)
calculate_days_to_maturity(as_of, maturity_date) ==
    IF maturity_date = None THEN None
    ELSE Some(maturity_date[1] - as_of)

(***************************************************************************)
(* _convert_to_base_currency: dict.get gives None for a missing key, and   *)
(* None is replaced by Decimal('1.0').                                     *)
(***************************************************************************)
DictGet(d, k) == IF k \in DOMAIN d THEN Some(d[k]) ELSE None

convert_always_multiplies(fx, base, amount, currency) ==
    LET got == DictGet(fx, currency)
        fx_rate == IF got = None THEN 1 ELSE got[1]
    IN  amount * fx_rate

convert_to_base_currency(fx, base, amount, currency) ==
    IF currency = base THEN amount
    ELSE LET got == DictGet(fx, currency)
             fx_rate == IF got = None THEN 1 ELSE got[1]
         IN  amount * fx_rate

(***************************************************************************)
(* _classify_position: reads position.instrument_type only.                *)
(***************************************************************************)
classify_bond_as_unknown(position) ==
    IF position.instrument_type \in {"loan_corporate", "loan_retail"} THEN "Asset"
    ELSE IF position.instrument_type \in {"deposit_corporate", "deposit_retail"}
         THEN "Liability"
         ELSE "Unknown"

classify_position(position) ==
    IF position.instrument_type \in {"loan_corporate", "loan_retail", "bond"} THEN "Asset"
    ELSE IF position.instrument_type \in {"deposit_corporate", "deposit_retail"}
         THEN "Liability"
         ELSE "Unknown"

(***************************************************************************)
(* DataFrame operations used by calculate_gap.                             *)
(***************************************************************************)
\* The last term in place of the total.
LastTo(f, n) == IF n = 0 THEN 0 ELSE f[n]

RECURSIVE SumTo(_, _)
SumTo(f, n) == IF n = 0 THEN 0 ELSE SumTo(f, n - 1) + f[n]

Cells(index, columns) == Range(index) \X Range(columns)

\* The labels of `order` that occur in `present`, in the order of `order`.
Present(order, present) == SelectSeq(order, LAMBDA x : x \in present)

\* sorted() of the labels pivot_table and groupby produce (string order).
ClassificationOrder == << "Asset", "Liability", "Unknown" >>
InstrumentTypeOrder ==
    << "bond", "cash", "deposit_corporate", "deposit_retail", "equity",
       "loan_corporate", "loan_retail", "other" >>
CurrencyOrder == << "CNY", "EUR", "GBP", "RUB", "USD" >>

\* df.pivot_table(values='amount_base', index='bucket', columns=col,
\*                aggfunc='sum', fill_value=0), then .reindex(row_order
\* restricted to the buckets present).
pivot_table_of_amount(data, col, col_order, row_order) ==
    LET index == Present(row_order, {data[i].bucket : i \in 1..Len(data)})
        columns == Present(col_order, {data[i][col] : i \in 1..Len(data)})
        contrib(k) == [i \in 1..Len(data) |->
                          IF data[i].bucket = k[1] /\ data[i][col] = k[2]
                          THEN data[i].amount ELSE 0]
    IN  [index |-> index, columns |-> columns,
         cell |-> [k \in Cells(index, columns) |-> SumTo(contrib(k), Len(data))]]

pivot_table(data, col, col_order, row_order) ==
    LET index == Present(row_order, {data[i].bucket : i \in 1..Len(data)})
        columns == Present(col_order, {data[i][col] : i \in 1..Len(data)})
        contrib(k) == [i \in 1..Len(data) |->
                          IF data[i].bucket = k[1] /\ data[i][col] = k[2]
                          THEN data[i].amount_base ELSE 0]
    IN  [index |-> index, columns |-> columns,
         cell |-> [k \in Cells(index, columns) |-> SumTo(contrib(k), Len(data))]]

\* frame[c] = v, v a value per row label; a new column goes last.
SetColumn(frame, c, v) ==
    LET columns == IF c \in Range(frame.columns) THEN frame.columns
                   ELSE Append(frame.columns, c)
    IN  [index |-> frame.index, columns |-> columns,
         cell |-> [k \in Cells(frame.index, columns) |->
                      IF k[2] = c THEN v[k[1]] ELSE frame.cell[k]]]

\* if c not in frame.columns: frame[c] = 0
EnsureColumn(frame, c) ==
    IF c \in Range(frame.columns) THEN frame
    ELSE SetColumn(frame, c, [r \in Range(frame.index) |-> 0])

Column(frame, c) == [i \in 1..Len(frame.index) |-> frame.cell[<<frame.index[i], c>>]]

\* frame[c].sum()
ColumnSum(frame, c) == SumTo(Column(frame, c), Len(frame.index))

\* frame[c].cumsum(), as a value per row label
RowPos(frame, r) == CHOOSE i \in 1..Len(frame.index) : frame.index[i] = r

CumSumFirstOnly(frame, c) ==
    [r \in Range(frame.index) |-> frame.cell[<<r, c>>]]

CumSum(frame, c) ==
    [r \in Range(frame.index) |-> SumTo(Column(frame, c), RowPos(frame, r))]

\* frame[a] - frame[b]
Minus(frame, a, b) ==
    [r \in Range(frame.index) |-> frame.cell[<<r, a>>] - frame.cell[<<r, b>>]]

\* pd.concat([frame, one_row]): the row goes last; a column the row does
\* not have is NaN in it.
ConcatRow(frame, label, row) ==
    LET index == Append(frame.index, label)
    IN  [index |-> index, columns |-> frame.columns,
         cell |-> [k \in Cells(index, frame.columns) |->
                      IF k[1] # label THEN frame.cell[k]
                      ELSE IF k[2] \in DOMAIN row THEN row[k[2]] ELSE NaN]]

\* frame.T
Transpose(frame) ==
    [index |-> frame.columns, columns |-> frame.index,
     cell |-> [k \in Cells(frame.columns, frame.index) |-> frame.cell[<<k[2], k[1]>>]]]

(***************************************************************************)
(* LiquidityGapAnalyzer.  An analyzer is a record of its attributes; a     *)
(* method is an operator from the analyzer to the analyzer it leaves.      *)
(* Three fields record the call for the properties: `trace` lists the      *)
(* methods entered, `raised` holds the exception that escaped (None when   *)
(* the call returned) and `ret` the value returned.                        *)
(***************************************************************************)
\* __init__: `fx_rates or DEFAULT_FX_RATES` takes the default for None and
\* for an empty mapping, both falsy.  A mapping is a function on the
\* currencies it has a rate for.  `as_of_date or date.today()` takes the
\* day of the run for None; a date is never falsy.
Falsy(opt_mapping) == opt_mapping = None \/ DOMAIN opt_mapping[1] = {}

\* The as_of_date of the inputs, as a day number.
AsOf == 100

\* date.today(): the day the program runs, a day other than the as_of_date
\* arguments of the inputs.
today == AsOf + 2

init(positions, as_of_date, fx_rates, base_currency) ==
    [positions |-> positions,
     as_of_date |-> IF as_of_date = None THEN today ELSE as_of_date[1],
     fx_rates |-> IF Falsy(fx_rates) THEN DEFAULT_FX_RATES ELSE fx_rates[1],
     base_currency |-> base_currency,
     buckets |-> define_buckets,
     gap_df |-> None,
     full_gap |-> None,
     summary_df |-> None,
     trace |-> << >>,
     raised |-> None,
     ret |-> None]

Enter(self, method) == [self EXCEPT !.trace = Append(@, method)]
Raise(self, exception) == [self EXCEPT !.raised = Some(exception), !.ret = None]

\* The dict appended to `data` for one position (the columns read later).
\* getattr(pos, 'maturity_date', None): a position without the attribute
\* carries None.
DataRow(self, pos) ==
    LET days_to_maturity ==
            calculate_days_to_maturity(self.as_of_date, pos.maturity_date)
    IN  [instrument_type |-> pos.instrument_type,
         currency |-> pos.currency,
         amount |-> pos.amount,
         amount_base |-> convert_to_base_currency(
                             self.fx_rates, self.base_currency, pos.amount, pos.currency),
         maturity_date |-> pos.maturity_date,
         days_to_maturity |-> days_to_maturity,
         bucket |-> get_bucket(self.buckets, days_to_maturity),
         classification |-> classify_position(pos)]

Data(self) == [i \in 1..Len(self.positions) |-> DataRow(self, self.positions[i])]

bucket_order_overdue_first(self) ==
    << "Overdue" >> \o [i \in 1..Len(self.buckets) |-> self.buckets[i].name]

bucket_order(self) ==
    [i \in 1..Len(self.buckets) |-> self.buckets[i].name] \o << "Overdue" >>

\* Lines 224-264: the classification pivot with Gap, Cumulative Gap and TOTAL.
TotalRow(pivot) ==
    [c \in {"Asset", "Liability", "Gap", "Cumulative Gap"} |->
        CASE c = "Asset" -> ColumnSum(pivot, "Asset")
          [] c = "Liability" -> ColumnSum(pivot, "Liability")
          [] c = "Gap" -> ColumnSum(pivot, "Gap")
          [] c = "Cumulative Gap" ->
                IF Len(pivot.index) > 0
                THEN pivot.cell[<<pivot.index[Len(pivot.index)], "Cumulative Gap">>]
                ELSE 0]

GapPivot(self) ==
    Let(pivot_table(Data(self), "classification", ClassificationOrder, bucket_order(self)),
        LAMBDA p0 :
    Let(EnsureColumn(EnsureColumn(p0, "Asset"), "Liability"),
        LAMBDA p1 :
    Let(SetColumn(p1, "Gap", Minus(p1, "Asset", "Liability")),
        LAMBDA p2 :
    Let(SetColumn(p2, "Cumulative Gap", CumSum(p2, "Gap")),
        LAMBDA p3 :
    ConcatRow(p3, "TOTAL", TotalRow(p3))))))

\* Lines 233-254 and 267: the instrument-type pivot, transposed.
FullPivot(self) ==
    Let(pivot_table(Data(self), "instrument_type", InstrumentTypeOrder, bucket_order(self)),
        LAMBDA f0 :
    Let(EnsureColumn(EnsureColumn(f0, "Asset"), "Liability"),
        LAMBDA f1 :
    Let(SetColumn(f1, "Gap", Minus(f1, "Asset", "Liability")),
        LAMBDA f2 :
    Let(SetColumn(f2, "Cumulative Gap", CumSum(f2, "Gap")),
        LAMBDA f3 :
    Transpose(f3)))))

\* A calculate_gap that stores amount_base back into each position.
calculate_gap_converts_in_place(self) ==
    LET s == Enter(self, "calculate_gap")
    IN  IF Len(s.positions) = 0 THEN Raise(s, "KeyError")
        ELSE Let(GapPivot(s), LAMBDA pivot :
                 [s EXCEPT !.gap_df = Some(pivot),
                           !.full_gap = Some(FullPivot(s)),
                           !.ret = Some(pivot),
                           !.positions = [i \in 1..Len(s.positions) |->
                                             [s.positions[i] EXCEPT
                                                 !.amount = Data(s)[i].amount_base]]])

\* calculate_gap.  pd.DataFrame([]) has no columns, so pivot_table raises
\* KeyError('amount_base') for an empty position list, before any
\* assignment to self.
calculate_gap(self) ==
    LET s == Enter(self, "calculate_gap")
    IN  IF Len(s.positions) = 0 THEN Raise(s, "KeyError")
        ELSE Let(GapPivot(s), LAMBDA pivot :
                 [s EXCEPT !.gap_df = Some(pivot),
                           !.full_gap = Some(FullPivot(s)),
                           !.ret = Some(pivot)])

(***************************************************************************)
(* calculate_summary_by_currency: groupby(classification, instrument_type, *)
(* currency) with sums, sorted by that key.  groupby on the column-less    *)
(* frame of an empty position list raises KeyError.                        *)
(***************************************************************************)
SummaryKeys ==
    [n \in 1..(Len(ClassificationOrder) * Len(InstrumentTypeOrder) * Len(CurrencyOrder)) |->
        << ClassificationOrder[((n - 1) \div (Len(InstrumentTypeOrder) * Len(CurrencyOrder))) + 1],
           InstrumentTypeOrder[(((n - 1) \div Len(CurrencyOrder)) % Len(InstrumentTypeOrder)) + 1],
           CurrencyOrder[((n - 1) % Len(CurrencyOrder)) + 1] >>]

Summary(self) ==
    LET data == Data(self)
        key(i) == << data[i].classification, data[i].instrument_type, data[i].currency >>
        keys == SelectSeq(SummaryKeys, LAMBDA k : \E i \in 1..Len(data) : key(i) = k)
        pick(k, col) == [i \in 1..Len(data) |-> IF key(i) = k THEN data[i][col] ELSE 0]
        one(k) == [i \in 1..Len(data) |-> IF key(i) = k THEN 1 ELSE 0]
    IN  [n \in 1..Len(keys) |->
            [classification |-> keys[n][1],
             instrument_type |-> keys[n][2],
             currency |-> keys[n][3],
             amount |-> SumTo(pick(keys[n], "amount"), Len(data)),
             amount_base |-> SumTo(pick(keys[n], "amount_base"), Len(data)),
             count |-> SumTo(one(keys[n]), Len(data))]]

calculate_summary_by_currency(self) ==
    LET s == Enter(self, "calculate_summary_by_currency")
    IN  IF Len(s.positions) = 0 THEN Raise(s, "KeyError")
        ELSE Let(Summary(s), LAMBDA summary :
                 [s EXCEPT !.summary_df = Some(summary), !.ret = Some(summary)])

(***************************************************************************)
(* calculate_ratios                                                        *)
(***************************************************************************)
liquid_buckets == << "Overnight", "1-7 days", "8-30 days" >>

\* sum(gap_df.loc[bucket, c] for bucket in liquid_buckets if bucket in gap_df.index)
LiquidSumOfOvernight(frame, c) ==
    IF "Overnight" \in Range(frame.index) THEN frame.cell[<<"Overnight", c>>] ELSE 0

LiquidSum(frame, c) ==
    SumTo([i \in 1..Len(liquid_buckets) |->
              IF liquid_buckets[i] \in Range(frame.index)
              THEN frame.cell[<<liquid_buckets[i], c>>] ELSE 0],
          Len(liquid_buckets))

Quotient(n, d) == [num |-> n, den |-> d]
Infinity == Quotient(1, 0)

\* The dict built at lines 340-356 from the cached table.  float() of an
\* integral Decimal is that integer.
Ratios(frame) ==
    LET liquid_assets == LiquidSum(frame, "Asset")
        st_liabilities == LiquidSum(frame, "Liability")
    IN  [liquid_assets |-> liquid_assets,
         short_term_liabilities |-> st_liabilities,
         liquidity_coverage_ratio |->
             IF st_liabilities > 0 THEN Quotient(liquid_assets, st_liabilities)
             ELSE Infinity,
         total_assets |-> frame.cell[<<"TOTAL", "Asset">>],
         total_liabilities |-> frame.cell[<<"TOTAL", "Liability">>],
         gap_30d |-> LiquidSum(frame, "Gap"),
         cumulative_gap_30d |-> LiquidSum(frame, "Gap")]

calculate_ratios_always_recomputes(self) ==
    LET s0 == Enter(self, "calculate_ratios")
    IN  Let(calculate_gap(s0), LAMBDA s1 :
            IF s1.raised # None THEN s1
            ELSE [s1 EXCEPT !.ret = Some(Ratios(s1.gap_df[1]))])

calculate_ratios(self) ==
    LET s0 == Enter(self, "calculate_ratios")
    IN  Let(IF s0.gap_df = None THEN calculate_gap(s0) ELSE s0, LAMBDA s1 :
            IF s1.raised # None THEN s1
            ELSE [s1 EXCEPT !.ret = Some(Ratios(s1.gap_df[1]))])

(***************************************************************************)
(* export_to_excel and print_gap_report.  Writing the workbook and         *)
(* printing change nothing in the analyzer; both return None.              *)
(***************************************************************************)
export_to_excel(self) ==
    LET s0 == Enter(self, "export_to_excel")
    IN  Let(IF s0.gap_df = None THEN calculate_gap(s0) ELSE s0, LAMBDA s1 :
        Let(IF s1.raised # None THEN s1
            ELSE IF s1.summary_df = None THEN calculate_summary_by_currency(s1)
            ELSE s1, LAMBDA s2 :
        Let(IF s2.raised # None THEN s2 ELSE calculate_ratios(s2), LAMBDA s3 :
            IF s3.raised # None THEN s3 ELSE [s3 EXCEPT !.ret = None])))

print_gap_report(self) ==
    LET s0 == Enter(self, "print_gap_report")
    IN  Let(IF s0.gap_df = None THEN calculate_gap(s0) ELSE s0, LAMBDA s1 :
        Let(IF s1.raised # None THEN s1 ELSE calculate_ratios(s1), LAMBDA s2 :
            IF s2.raised # None THEN s2 ELSE [s2 EXCEPT !.ret = None]))

(***************************************************************************)
(* The position hierarchy of models/positions.py.                          *)
(*                                                                         *)
(* Encodings.  A str that the code inspects character by character         *)
(* (position_id) is a sequence of one-character strings.  A Decimal that   *)
(* enters a product or a quotient is an exact fraction [num, den] in       *)
(* lowest terms with den > 0; Decimal rounding is not modelled.  A dict    *)
(* of constructor arguments is a function on the keys it has.  A pydantic  *)
(* ValidationError is the set of the messages of its errors.               *)
(***************************************************************************)
Abs(n) == IF n < 0 THEN 0 - n ELSE n

RECURSIVE GCD(_, _)
GCD(a, b) == IF b = 0 THEN a ELSE GCD(b, a % b)

\* n / d for d # 0, in lowest terms.
Fraction(n, d) ==
    LET g == GCD(Abs(n), Abs(d))
        sign == IF d < 0 THEN 0 - 1 ELSE 1
    IN  [num |-> (sign * n) \div g, den |-> (sign * d) \div g]

Decimal(n) == Fraction(n, 1)
Times(a, b) == Fraction(a.num * b.num, a.den * b.den)
Plus(a, b) == Fraction(a.num * b.den + b.num * a.den, a.den * b.den)
Negated(a) == Fraction(0 - a.num, a.den)
\* bool(Decimal): zero is falsy
Truthy(a) == a.num # 0

\* The characters str.isspace() accepts, which str.strip() removes with no
\* argument.  A character is a string of length one; a character above
\* U+00FF, which a module cannot hold, is written by its Python escape.
AsciiWhitespace == {" ", "\t", "\n", "\r", "\f", "", "", "", "", ""}
UnicodeWhitespace ==
    {"", " ", "\\u1680", "\\u2000", "\\u2001", "\\u2002", "\\u2003", "\\u2004",
     "\\u2005", "\\u2006", "\\u2007", "\\u2008", "\\u2009", "\\u200a", "\\u2028",
     "\\u2029", "\\u202f", "\\u205f", "\\u3000"}
Whitespace == AsciiWhitespace \cup UnicodeWhitespace

RECURSIVE lstrip(_)
lstrip(v) == IF Len(v) > 0 /\ Head(v) \in Whitespace THEN lstrip(Tail(v)) ELSE v

RECURSIVE rstrip(_)
rstrip(v) ==
    IF Len(v) > 0 /\ v[Len(v)] \in Whitespace THEN rstrip(SubSeq(v, 1, Len(v) - 1)) ELSE v

strip(v) == rstrip(lstrip(v))

\* str.lower(): every cased character goes to its lowercase; the letters
\* a module can hold are those up to U+00FF.
Uppercase == "ABCDEFGHIJKLMNOPQRSTUVWXYZÀÁÂÃÄÅÆÇÈÉÊËÌÍÎÏÐÑÒÓÔÕÖØÙÚÛÜÝÞ"
Lowercase == "abcdefghijklmnopqrstuvwxyzàáâãäåæçèéêëìíîïðñòóôõöøùúûüýþ"

LowerChar(c) ==
    IF \E i \in 1..Len(Uppercase) : SubSeq(Uppercase, i, i) = c
    THEN LET i == CHOOSE i \in 1..Len(Uppercase) : SubSeq(Uppercase, i, i) = c
         IN  SubSeq(Lowercase, i, i)
    ELSE c

RECURSIVE lower(_)
lower(v) == IF Len(v) = 0 THEN v ELSE LowerChar(SubSeq(v, 1, 1)) \o lower(Tail(v))

CounterpartyType == {"corporate", "retail", "bank", "government", "other"}
RateType == {"fixed", "floating", "zero"}
RepricingFrequency == {"daily", "monthly", "quarterly", "semiannual", "annual"}
AssetQuality == {"standard", "watch", "substandard", "doubtful", "loss"}

\* What a field validator gives: the value to store, or the message of
\* the ValueError it raised.
Valid(v) == [value |-> Some(v), error |-> None]
Invalid(message) == [value |-> None, error |-> Some(message)]

\* Position.amount_must_be_nonzero
amount_must_be_nonzero(v) ==
    IF v = 0 THEN Invalid("Amount cannot be zero") ELSE Valid(v)

\* Position.position_id_must_be_nonempty: `not v or not v.strip()`
position_id_keeps_whitespace(v) ==
    IF Len(v) = 0 \/ Len(strip(v)) = 0 THEN Invalid("Position ID cannot be empty")
    ELSE Valid(v)

position_id_must_be_nonempty(v) ==
    IF Len(v) = 0 \/ Len(strip(v)) = 0 THEN Invalid("Position ID cannot be empty")
    ELSE Valid(strip(v))

\* LoanBase.provision_cannot_be_negative
provision_cannot_be_negative(v) ==
    IF v < 0 THEN Invalid("Provision amount cannot be negative") ELSE Valid(v)

RetailLoanProducts == {"mortgage", "consumer", "auto", "credit_card", "other"}
RetailDepositProducts == {"savings", "time_deposit", "current_account", "other"}

\* The text of a set of allowed types in an f-string.  Python writes the
\* elements in the order of their hashes, which changes from run to run;
\* the text stands for every such order and is written in alphabetical
\* order.
repr(allowed_types) ==
    IF allowed_types = RetailLoanProducts
    THEN "{'auto', 'consumer', 'credit_card', 'mortgage', 'other'}"
    ELSE "{'current_account', 'other', 'savings', 'time_deposit'}"

\* RetailLoan.validate_product_type and RetailDeposit.validate_product_type
validate_product_type(allowed_types, v) ==
    IF lower(v) \notin allowed_types
    THEN Invalid("product_type must be one of " \o repr(allowed_types))
    ELSE Valid(lower(v))

\* What a model validator gives: the instance (possibly changed), or the
\* message of the ValueError it raised.
\* BalanceSheetInstrument.validate_dates: the first failing test raises.
validate_dates_allows_equal(self) ==
    IF self.start_date > self.as_of_date
    THEN Invalid("start_date cannot be after as_of_date")
    ELSE IF self.maturity_date # None /\ self.maturity_date[1] < self.start_date
    THEN Invalid("maturity_date must be after start_date")
    ELSE IF self.repricing_date # None /\ self.repricing_date[1] < self.as_of_date
    THEN Invalid("repricing_date cannot be before as_of_date")
    ELSE Valid(self)

validate_dates(self) ==
    IF self.start_date > self.as_of_date
    THEN Invalid("start_date cannot be after as_of_date")
    ELSE IF self.maturity_date # None /\ self.maturity_date[1] <= self.start_date
    THEN Invalid("maturity_date must be after start_date")
    ELSE IF self.repricing_date # None /\ self.repricing_date[1] < self.as_of_date
    THEN Invalid("repricing_date cannot be before as_of_date")
    ELSE Valid(self)

\* BalanceSheetInstrument.validate_rate_logic
validate_rate_logic(self) ==
    IF self.rate_type = "floating"
    THEN IF self.repricing_frequency = None
         THEN Invalid("floating rate requires repricing_frequency")
         ELSE IF self.repricing_date = None
              THEN Invalid("floating rate requires repricing_date")
              ELSE Valid(self)
    ELSE Valid(self)

\* CorporateLoan.validate_revolving_logic: `not self.credit_limit` holds
\* for None and for Decimal 0.
validate_revolving_logic(self) ==
    IF self.is_revolving /\ (self.credit_limit = None \/ self.credit_limit[1] = 0)
    THEN Invalid("Revolving loan requires credit_limit")
    ELSE Valid(self)

\* RetailLoan.validate_mortgage_logic
validate_mortgage_logic(self) ==
    IF self.is_mortgage /\ self.product_type # "mortgage"
    THEN Invalid("is_mortgage flag requires product_type=mortgage")
    ELSE Valid(self)

\* RetailDeposit.validate_insurance_logic: sets insured_amount to
\* min(amount, 1400000) when it is unset on an insured deposit.  The
\* validated amount is never 0, so `and self.amount` holds.
max_insurance == 1400000

validate_insurance_logic_sets_the_cap(self) ==
    IF self.is_insured /\ self.insured_amount = None /\ self.amount # 0
    THEN Valid([self EXCEPT !.insured_amount = Some(max_insurance),
                            !.model_fields_set = @ \cup {"insured_amount"}])
    ELSE Valid(self)

validate_insurance_logic(self) ==
    IF self.is_insured /\ self.insured_amount = None /\ self.amount # 0
    THEN Valid([self EXCEPT !.insured_amount =
                    Some(IF self.amount < max_insurance THEN self.amount
                         ELSE max_insurance),
                            !.model_fields_set = @ \cup {"insured_amount"}])
    ELSE Valid(self)

(***************************************************************************)
(* Construction.  pydantic validates the fields given (a field left out    *)
(* takes its default unvalidated, a required field left out is an error),  *)
(* collects the errors of all fields, and only when there is none runs     *)
(* the model validators in the order of their definition, base class       *)
(* first, stopping at the first that raises.  Keys that are not fields     *)
(* are ignored.  An instance is the record of its fields and of            *)
(* model_fields_set, the names of the fields that were given or assigned.  *)
(* A member of a str enumeration equals its value and is stored as the     *)
(* value.  Type validation of the fields without a validator here is not   *)
(* modelled: their arguments are of the declared type.                     *)
(***************************************************************************)
Classes == {"Position", "CorporateLoan", "RetailLoan", "CorporateDeposit", "RetailDeposit"}
Loans == {"CorporateLoan", "RetailLoan"}
Deposits == {"CorporateDeposit", "RetailDeposit"}

\* The Literal of a subclass for instrument_type and counterparty_type.
LiteralOf(cls) ==
    CASE cls = "CorporateLoan" -> [instrument_type |-> "loan_corporate",
                                   counterparty_type |-> "corporate"]
      [] cls = "RetailLoan" -> [instrument_type |-> "loan_retail",
                                counterparty_type |-> "retail"]
      [] cls = "CorporateDeposit" -> [instrument_type |-> "deposit_corporate",
                                      counterparty_type |-> "corporate"]
      [] cls = "RetailDeposit" -> [instrument_type |-> "deposit_retail",
                                   counterparty_type |-> "retail"]

PositionRequired ==
    {"position_id", "as_of_date", "instrument_type", "balance_account", "currency",
     "amount", "counterparty_type"}

PositionDefaults == [metadata |-> Some([k \in {} |-> None])]

BalanceSheetInstrumentDefaults ==
    [maturity_date |-> None, rate |-> None, rate_type |-> "fixed",
     repricing_date |-> None, repricing_frequency |-> None,
     is_amortizing |-> FALSE, amortization_schedule |-> None]

LoanBaseDefaults ==
    [asset_quality |-> "standard", provision_amount |-> 0, collateral_value |-> None,
     allows_early_repayment |-> TRUE, early_repayment_penalty |-> None,
     behavioral_prepayment_rate |-> None]

DepositBaseDefaults ==
    [is_demand_deposit |-> FALSE, allows_early_withdrawal |-> TRUE,
     early_withdrawal_penalty |-> None, interest_capitalization |-> FALSE,
     behavioral_runoff_rate |-> None, behavioral_core_portion |-> None]

\* d1 extended by d2 (d2 wins on a common key).
Merge(d1, d2) ==
    [k \in DOMAIN d1 \cup DOMAIN d2 |-> IF k \in DOMAIN d2 THEN d2[k] ELSE d1[k]]

Required(cls) ==
    CASE cls = "Position" -> PositionRequired
      [] cls \in {"CorporateLoan", "CorporateDeposit"} ->
            (PositionRequired \ {"instrument_type", "counterparty_type"}) \cup {"start_date"}
      [] cls \in {"RetailLoan", "RetailDeposit"} ->
            (PositionRequired \ {"instrument_type", "counterparty_type"})
                \cup {"start_date", "product_type"}

Defaults(cls) ==
    CASE cls = "Position" -> PositionDefaults
      [] cls = "CorporateLoan" ->
            Merge(Merge(Merge(Merge(PositionDefaults, BalanceSheetInstrumentDefaults),
                              LoanBaseDefaults),
                        LiteralOf(cls)),
                  [industry_sector |-> None, borrower_rating |-> None,
                   is_syndicated |-> FALSE, is_revolving |-> FALSE, credit_limit |-> None])
      [] cls = "RetailLoan" ->
            Merge(Merge(Merge(Merge(PositionDefaults, BalanceSheetInstrumentDefaults),
                              LoanBaseDefaults),
                        LiteralOf(cls)),
                  [borrower_age |-> None, borrower_income |-> None,
                   is_mortgage |-> FALSE, loan_to_value |-> None])
      [] cls = "CorporateDeposit" ->
            Merge(Merge(Merge(Merge(PositionDefaults, BalanceSheetInstrumentDefaults),
                              DepositBaseDefaults),
                        LiteralOf(cls)),
                  [is_operational |-> FALSE, industry_sector |-> None,
                   depositor_rating |-> None, average_balance_30d |-> None,
                   average_balance_90d |-> None])
      [] cls = "RetailDeposit" ->
            Merge(Merge(Merge(Merge(PositionDefaults, BalanceSheetInstrumentDefaults),
                              DepositBaseDefaults),
                        LiteralOf(cls)),
                  [is_insured |-> TRUE, insured_amount |-> None,
                   depositor_age |-> None, depositor_segment |-> None])

Fields(cls) == Required(cls) \cup DOMAIN Defaults(cls)

\* The validation of one field that was given.
ValidateField(cls, k, v) ==
    CASE k = "position_id" -> position_id_must_be_nonempty(v)
      [] k = "amount" -> amount_must_be_nonzero(v)
      [] k = "currency" ->
            IF v \in Currency THEN Valid(v) ELSE Invalid("Input should be a Currency")
      [] k \in {"instrument_type", "counterparty_type"} /\ cls = "Position" ->
            IF (k = "instrument_type" /\ v \in InstrumentType)
               \/ (k = "counterparty_type" /\ v \in CounterpartyType)
            THEN Valid(v) ELSE Invalid("Input should be a member of the enumeration")
      [] k \in {"instrument_type", "counterparty_type"} /\ cls # "Position" ->
            IF v = LiteralOf(cls)[k] THEN Valid(v)
            ELSE Invalid("Input should be the literal of the class")
      [] k = "rate_type" ->
            IF v \in RateType THEN Valid(v) ELSE Invalid("Input should be a RateType")
      [] k = "repricing_frequency" ->
            IF v = None \/ v[1] \in RepricingFrequency THEN Valid(v)
            ELSE Invalid("Input should be a RepricingFrequency")
      [] k = "asset_quality" ->
            IF v \in AssetQuality THEN Valid(v)
            ELSE Invalid("Input should be an AssetQuality")
      [] k = "provision_amount" -> provision_cannot_be_negative(v)
      [] k = "product_type" ->
            validate_product_type(IF cls = "RetailLoan" THEN RetailLoanProducts
                                  ELSE RetailDepositProducts, v)
      [] OTHER -> Valid(v)

FieldError(k, message) == [loc |-> k, msg |-> message]

FieldErrors(cls, data) ==
    {FieldError(k, "Field required") : k \in Required(cls) \ DOMAIN data}
    \cup {FieldError(k, ValidateField(cls, k, data[k]).error[1]) :
             k \in {f \in Fields(cls) \cap DOMAIN data :
                       ValidateField(cls, f, data[f]).error # None}}

\* v, then validator V on what v gave unless v raised.
Then(v, V(_)) == IF v.error # None THEN v ELSE V(v.value[1])

ModelValidators(cls, self) ==
    CASE cls = "Position" -> Valid(self)
      [] cls = "CorporateLoan" ->
            Then(Then(validate_dates(self), validate_rate_logic), validate_revolving_logic)
      [] cls = "RetailLoan" ->
            Then(Then(validate_dates(self), validate_rate_logic), validate_mortgage_logic)
      [] cls = "CorporateDeposit" ->
            Then(validate_dates(self), validate_rate_logic)
      [] cls = "RetailDeposit" ->
            Then(Then(validate_dates(self), validate_rate_logic), validate_insurance_logic)

\* cls(**data): the instance, or the errors of the ValidationError.
Instantiate(cls, data) ==
    Let(FieldErrors(cls, data), LAMBDA errors :
        IF errors # {} THEN [instance |-> None, errors |-> errors]
        ELSE Let(ModelValidators(cls,
                     Merge([k \in Fields(cls) |->
                               IF k \in DOMAIN data
                               THEN ValidateField(cls, k, data[k]).value[1]
                               ELSE Defaults(cls)[k]],
                           [model_fields_set |-> Fields(cls) \cap DOMAIN data])),
                 LAMBDA checked :
                     IF checked.error # None
                     THEN [instance |-> None,
                           errors |-> {FieldError("", checked.error[1])}]
                     ELSE [instance |-> checked.value, errors |-> {}]))

(***************************************************************************)
(* Cash flows.  Every amount of a cash-flow record is a fraction.          *)
(***************************************************************************)
\* LoanBase.get_effective_maturity and DepositBase.get_effective_maturity
get_effective_maturity(self) == self.maturity_date

get_time_to_maturity_years_from_start(self) ==
    LET effective_maturity == get_effective_maturity(self)
    IN  IF effective_maturity = None THEN None
        ELSE Some(Fraction(effective_maturity[1] - self.start_date, 365))

\* BalanceSheetInstrument.get_time_to_maturity_years
get_time_to_maturity_years(self) ==
    LET effective_maturity == get_effective_maturity(self)
    IN  IF effective_maturity = None THEN None
        ELSE Some(Fraction(effective_maturity[1] - self.as_of_date, 365))

CashFlow(d, principal, interest, total) ==
    [date |-> d, principal |-> principal, interest |-> interest, total |-> total]

\* The `if self.rate:` block of both get_cash_flows.
InterestToMaturity(self) ==
    IF self.rate # None /\ Truthy(self.rate[1])
    THEN LET time_to_maturity == get_time_to_maturity_years(self)
         IN  IF time_to_maturity # None /\ Truthy(time_to_maturity[1])
             THEN Times(Times(Decimal(self.amount), self.rate[1]), time_to_maturity[1])
             ELSE Decimal(0)
    ELSE Decimal(0)

\* The for loop over amortization_schedule from entry i on.
RECURSIVE ScheduledFlows(_, _, _)
ScheduledFlows(schedule, as_of, i) ==
    IF i > Len(schedule) THEN << >>
    ELSE LET payment == schedule[i]
             rest == ScheduledFlows(schedule, as_of, i + 1)
         IN  IF payment.date >= as_of
             THEN << CashFlow(payment.date, Decimal(payment.principal),
                              Decimal(payment.interest),
                              Plus(Decimal(payment.principal), Decimal(payment.interest))) >>
                  \o rest
             ELSE rest

\* LoanBase.get_cash_flows.  An empty schedule is falsy.
loan_get_cash_flows(self) ==
    IF self.maturity_date = None THEN << >>
    ELSE IF self.is_amortizing /\ self.amortization_schedule # None
            /\ Len(self.amortization_schedule[1]) > 0
         THEN ScheduledFlows(self.amortization_schedule[1], self.as_of_date, 1)
         ELSE LET interest == InterestToMaturity(self)
              IN  << CashFlow(self.maturity_date[1], Decimal(self.amount), interest,
                              Plus(Decimal(self.amount), interest)) >>

deposit_interest_not_negated(self) ==
    IF self.is_demand_deposit /\ self.maturity_date = None THEN << >>
    ELSE IF self.maturity_date = None THEN << >>
    ELSE LET interest == InterestToMaturity(self)
         IN  << CashFlow(self.maturity_date[1], Negated(Decimal(self.amount)),
                         interest,
                         Negated(Plus(Decimal(self.amount), interest))) >>

\* DepositBase.get_cash_flows
deposit_get_cash_flows(self) ==
    IF self.is_demand_deposit /\ self.maturity_date = None THEN << >>
    ELSE IF self.maturity_date = None THEN << >>
    ELSE LET interest == InterestToMaturity(self)
         IN  << CashFlow(self.maturity_date[1], Negated(Decimal(self.amount)),
                         Negated(interest),
                         Negated(Plus(Decimal(self.amount), interest))) >>

\* instance.get_cash_flows() by the class of the instance.
get_cash_flows(self) ==
    IF self.instrument_type \in {"loan_corporate", "loan_retail"}
    THEN loan_get_cash_flows(self)
    ELSE deposit_get_cash_flows(self)

(***************************************************************************)
(* create_position_from_dict.  In the mapping given to the factory, and    *)
(* in the mapping dict() gives, the value of a field whose default is a    *)
(* member of an enumeration (instrument_type, counterparty_type,           *)
(* rate_type, asset_quality) carries its Python type: a str, a member of   *)
(* the enumeration (a str subclass, equal to its value) or None.  The      *)
(* result names the class that built the instance.                         *)
(***************************************************************************)
Str(s) == [type |-> "str", value |-> s]
MemberOf(enum, s) == [type |-> enum, value |-> s]
Member(s) == MemberOf("InstrumentType", s)
NoneValue == [type |-> "NoneType", value |-> ""]

\* The fields with a member for default, and their enumerations.
EnumOf ==
    [instrument_type |-> "InstrumentType", counterparty_type |-> "CounterpartyType",
     rate_type |-> "RateType", asset_quality |-> "AssetQuality"]

\* position_class(**data): pydantic takes a member and its value alike.
EnumValues(data) ==
    [k \in DOMAIN data |-> IF k \in DOMAIN EnumOf THEN data[k].value ELSE data[k]]

ValueError(message) ==
    [position_class |-> None, instance |-> None, errors |-> {FieldError("", message)}]

class_mapping ==
    [t \in {"loan_corporate", "loan_retail", "deposit_corporate", "deposit_retail"} |->
        CASE t = "loan_corporate" -> "CorporateLoan"
          [] t = "loan_retail" -> "RetailLoan"
          [] t = "deposit_corporate" -> "CorporateDeposit"
          [] t = "deposit_retail" -> "RetailDeposit"]

\* `not instrument_type`: the key is missing, or its value is None or ''.
NotGiven(got) == got = None \/ got[1].type = "NoneType" \/ got[1].value = ""

create_position_from_dict_without_conversion(data) ==
    LET got == DictGet(data, "instrument_type")
    IN  IF NotGiven(got) THEN ValueError("instrument_type is required")
        ELSE LET instrument_type == got[1].value
                 position_class == DictGet(class_mapping, instrument_type)
             IN  IF position_class = None
                 THEN ValueError("No class mapping for instrument_type")
                 ELSE Let(Instantiate(position_class[1], EnumValues(data)),
                          LAMBDA r : [position_class |-> position_class,
                                      instance |-> r.instance, errors |-> r.errors])

\* A member is a str too, and InstrumentType(member) is the member; the
\* class takes the member and its value alike.
create_position_from_dict(data) ==
    LET got == DictGet(data, "instrument_type")
    IN  IF NotGiven(got) THEN ValueError("instrument_type is required")
        ELSE IF got[1].type \in {"str", "InstrumentType"}
                /\ got[1].value \notin InstrumentType
        THEN ValueError("Unknown instrument_type")
        ELSE LET instrument_type == got[1].value
                 position_class == DictGet(class_mapping, instrument_type)
             IN  IF position_class = None
                 THEN ValueError("No class mapping for instrument_type")
                 ELSE Let(Instantiate(position_class[1], EnumValues(data)),
                          LAMBDA r : [position_class |-> position_class,
                                      instance |-> r.instance, errors |-> r.errors])

\* BaseModel.dict(): every field of the instance.  use_enum_values makes
\* a str of a member that was given; a default is not validated and
\* stays the member.
dict(self) ==
    [k \in DOMAIN self \ {"model_fields_set"} |->
        IF k \notin DOMAIN EnumOf THEN self[k]
        ELSE IF k \in self.model_fields_set THEN Str(self[k])
        ELSE MemberOf(EnumOf[k], self[k])]

(***************************************************************************)
(* Bond.  models/positions.py defines no Bond, though tests/unit/          *)
(* test_bonds.py and data/loaders/csv_loader.py import it from there; the  *)
(* class is modelled from spec.md (Bond under the position hierarchy, the  *)
(* bond rules of the cash-flow contract) and from the messages the tests   *)
(* expect.  It extends BalanceSheetInstrument, whose validators it runs.   *)
(* isin, the prices, credit_rating, accounting_classification and          *)
(* accrued_interest are left out.                                          *)
(*                                                                         *)
(* A date of a Bond is the number 31 * month + day for a day every month   *)
(* has (1..28): the order of the numbers is the order of the dates, and    *)
(* adding months keeps the day.                                            *)
(***************************************************************************)
BondType == {"government", "corporate"}
CouponFrequency == {"zero", "quarterly", "semiannual", "annual"}

BondDate(month, day) == 31 * month + day
AddMonths(d, months) == d + 31 * months

\* quarterly = 3 months, semiannual = 6, annual = 12
MonthsBetweenCoupons(coupon_frequency) ==
    CASE coupon_frequency = "quarterly" -> 3
      [] coupon_frequency = "semiannual" -> 6
      [] coupon_frequency = "annual" -> 12

PaymentsPerYear(coupon_frequency) ==
    CASE coupon_frequency = "quarterly" -> 4
      [] coupon_frequency = "semiannual" -> 2
      [] coupon_frequency = "annual" -> 1

BondRequired ==
    (PositionRequired \ {"instrument_type"})
    \cup {"start_date", "bond_type", "issuer", "face_value", "coupon_rate",
          "coupon_frequency"}

BondDefaults ==
    Merge(Merge(PositionDefaults, BalanceSheetInstrumentDefaults),
          [instrument_type |-> "bond", next_coupon_date |-> None,
           is_callable |-> FALSE, call_date |-> None,
           is_puttable |-> FALSE, put_date |-> None])

BondFields == BondRequired \cup DOMAIN BondDefaults

coupon_rate_cannot_be_negative(v) ==
    IF v.num < 0 THEN Invalid("Coupon rate cannot be negative") ELSE Valid(v)

BondValidateField(k, v) ==
    CASE k = "position_id" -> position_id_must_be_nonempty(v)
      [] k = "amount" -> amount_must_be_nonzero(v)
      [] k = "currency" ->
            IF v \in Currency THEN Valid(v) ELSE Invalid("Input should be a Currency")
      [] k = "instrument_type" ->
            IF v = "bond" THEN Valid(v) ELSE Invalid("Input should be the literal of the class")
      [] k = "counterparty_type" ->
            IF v \in CounterpartyType THEN Valid(v)
            ELSE Invalid("Input should be a member of the enumeration")
      [] k = "rate_type" ->
            IF v \in RateType THEN Valid(v) ELSE Invalid("Input should be a RateType")
      [] k = "bond_type" ->
            IF v \in BondType THEN Valid(v) ELSE Invalid("Input should be a BondType")
      [] k = "coupon_frequency" ->
            IF v \in CouponFrequency THEN Valid(v)
            ELSE Invalid("Input should be a CouponFrequency")
      [] k = "coupon_rate" -> coupon_rate_cannot_be_negative(v)
      [] OTHER -> Valid(v)

BondFieldErrors(data) ==
    {FieldError(k, "Field required") : k \in BondRequired \ DOMAIN data}
    \cup {FieldError(k, BondValidateField(k, data[k]).error[1]) :
             k \in {f \in BondFields \cap DOMAIN data :
                       BondValidateField(f, data[f]).error # None}}

\* the coupon, callable and puttable rules
validate_bond_logic(self) ==
    IF self.coupon_frequency = "zero" /\ Truthy(self.coupon_rate)
    THEN Invalid("Zero-coupon bond must have coupon_rate = 0")
    ELSE IF self.is_callable /\ self.call_date = None
    THEN Invalid("Callable bond requires call_date")
    ELSE IF self.is_puttable /\ self.put_date = None
    THEN Invalid("Puttable bond requires put_date")
    ELSE Valid(self)

\* Bond(**data)
InstantiateBond(data) ==
    Let(BondFieldErrors(data), LAMBDA errors :
        IF errors # {} THEN [instance |-> None, errors |-> errors]
        ELSE Let(Then(Then(validate_dates(
                               Merge([k \in BondFields |->
                                         IF k \in DOMAIN data
                                         THEN BondValidateField(k, data[k]).value[1]
                                         ELSE BondDefaults[k]],
                                     [model_fields_set |-> BondFields \cap DOMAIN data])),
                           validate_rate_logic),
                      validate_bond_logic),
                 LAMBDA checked :
                     IF checked.error # None
                     THEN [instance |-> None,
                           errors |-> {FieldError("", checked.error[1])}]
                     ELSE [instance |-> checked.value, errors |-> {}]))

\* number_of_bonds = amount / face_value
get_number_of_bonds(self) == Fraction(self.amount, self.face_value)

\* coupon_payment_amount = face_value * coupon_rate / payments_per_year
get_coupon_payment_amount(self) ==
    IF self.coupon_frequency = "zero" THEN Decimal(0)
    ELSE Times(Times(Decimal(self.face_value), self.coupon_rate),
               Fraction(1, PaymentsPerYear(self.coupon_frequency)))

BondCashFlow(d, principal, interest, type) ==
    [date |-> d, principal |-> principal, interest |-> interest, type |-> type]

\* The coupon records from coupon date d on, to maturity_date inclusive.
RECURSIVE CouponFlows(_, _)
CouponFlows(self, d) ==
    IF d > self.maturity_date[1] THEN << >>
    ELSE << BondCashFlow(d, Decimal(0),
                         Times(get_coupon_payment_amount(self), get_number_of_bonds(self)),
                         "coupon") >>
         \o CouponFlows(self, AddMonths(d, MonthsBetweenCoupons(self.coupon_frequency)))

MaturityFlowOfFaceValue(self) ==
    BondCashFlow(self.maturity_date[1], Decimal(self.face_value), Decimal(0), "maturity")

MaturityFlow(self) ==
    BondCashFlow(self.maturity_date[1], Decimal(self.amount), Decimal(0), "maturity")

bond_maturity_flow_merged_into_last_coupon(self) ==
    IF self.coupon_frequency = "zero" THEN << MaturityFlow(self) >>
    ELSE LET coupons == CouponFlows(self, self.next_coupon_date[1])
         IN  IF coupons # << >> /\ coupons[Len(coupons)].date = self.maturity_date[1]
             THEN [coupons EXCEPT ![Len(coupons)] =
                      [@ EXCEPT !.principal = Decimal(self.amount), !.type = "maturity"]]
             ELSE coupons \o << MaturityFlow(self) >>

\* Bond.get_cash_flows for a bond with a maturity_date and, when it bears
\* coupons, a next_coupon_date.
bond_get_cash_flows(self) ==
    IF self.coupon_frequency = "zero" THEN << MaturityFlow(self) >>
    ELSE CouponFlows(self, self.next_coupon_date[1]) \o << MaturityFlow(self) >>

(***************************************************************************)
(* State: the analyzer's attributes, and the record of the last operation  *)
(* on it (`op` its name, `arg` the arguments of a helper call).            *)
(***************************************************************************)
VARIABLES positions, as_of_date, fx_rates, base_currency, buckets,
          gap_df, full_gap, summary_df, op, arg, trace, raised, ret

inputs == << positions, as_of_date, fx_rates, base_currency, buckets >>
caches == << gap_df, full_gap, summary_df >>
vars == << positions, as_of_date, fx_rates, base_currency, buckets,
           gap_df, full_gap, summary_df, op, arg, trace, raised, ret >>

\* The analyzer as the methods see it at the start of a call.
Self ==
    [positions |-> positions, as_of_date |-> as_of_date, fx_rates |-> fx_rates,
     base_currency |-> base_currency, buckets |-> buckets, gap_df |-> gap_df,
     full_gap |-> full_gap, summary_df |-> summary_df,
     trace |-> << >>, raised |-> None, ret |-> None]

\* The analyzer a method call leaves.
Leaves(s) ==
    /\ positions' = s.positions
    /\ as_of_date' = s.as_of_date
    /\ fx_rates' = s.fx_rates
    /\ base_currency' = s.base_currency
    /\ buckets' = s.buckets
    /\ gap_df' = s.gap_df
    /\ full_gap' = s.full_gap
    /\ summary_df' = s.summary_df
    /\ trace' = s.trace
    /\ raised' = s.raised
    /\ ret' = s.ret

Constructed(s) ==
    /\ positions = s.positions
    /\ as_of_date = s.as_of_date
    /\ fx_rates = s.fx_rates
    /\ base_currency = s.base_currency
    /\ buckets = s.buckets
    /\ gap_df = s.gap_df
    /\ full_gap = s.full_gap
    /\ summary_df = s.summary_df
    /\ trace = s.trace
    /\ raised = s.raised
    /\ ret = s.ret
    /\ op = "__init__"
    /\ arg = None

(***************************************************************************)
(* Inputs.                                                                 *)
(***************************************************************************)
Position(t, c, a, m) ==
    [instrument_type |-> t, currency |-> c, amount |-> a, maturity_date |-> m]

MaxPositions == 2
MaxDays == 1830
MinDays == 3

\* Maturities 1 day before AsOf, on it, and 40 days after it.
Maturities == {Some(AsOf - 1), Some(AsOf), Some(AsOf + 40)}
Amounts == {-1, 2}
\* The (currency, amount) pairs of the books.
Holdings == {<< "RUB", -1 >>, << "RUB", 2 >>, << "USD", 2 >>}

\* Loans and deposits carry a maturity_date; a bare Position (equity) has
\* no such attribute.  No mapping has a rate for GBP.
PositionUniverse ==
    {Position(t, h[1], h[2], m) : t \in {"loan_corporate", "deposit_retail"},
                                  h \in Holdings, m \in Maturities}
    \cup {Position("equity", "RUB", 2, None), Position("equity", "USD", 2, None)}
    \cup {Position("loan_corporate", "GBP", 2, Some(AsOf)),
          Position("deposit_retail", "GBP", 2, Some(AsOf - 1))}

RECURSIVE SeqsUpTo(_, _)
SeqsUpTo(S, n) ==
    IF n = 0 THEN {<< >>}
    ELSE LET shorter == SeqsUpTo(S, n - 1)
         IN  shorter \cup {Append(b, x) : b \in {q \in shorter : Len(q) = n - 1}, x \in S}

Books == SeqsUpTo(PositionUniverse, MaxPositions)

\* The books of the 30-day figures: loans of 2 RUB and deposits of 2 USD
\* that mature on AsOf (Overnight), 5 days later (1-7 days), 20 days later
\* (8-30 days) and 40 days later (1-3 months), an overdue loan and an
\* equity position, up to MaxLiquid a book, so that the three liquid rows
\* occur together, and with rows and a column outside the sums.
MaxLiquid == 3
LiquidMaturities == {Some(AsOf), Some(AsOf + 5), Some(AsOf + 20), Some(AsOf + 40)}
LiquidUniverse ==
    {Position("loan_corporate", "RUB", 2, m) : m \in LiquidMaturities}
    \cup {Position("deposit_retail", "USD", 2, m) : m \in LiquidMaturities}
    \cup {Position("loan_corporate", "RUB", 2, Some(AsOf - 1)),
          Position("equity", "RUB", 2, None)}
LiquidBooks == SeqsUpTo(LiquidUniverse, MaxLiquid)

CustomFx == [c \in {"RUB", "USD"} |-> IF c = "RUB" THEN 1 ELSE 90]
EmptyFx == [c \in {} |-> 1]
FxMappings == {DEFAULT_FX_RATES, CustomFx, EmptyFx}
FxArguments == {None} \cup {Some(m) : m \in FxMappings}
BaseCurrencies == {"RUB", "USD"}

\* The books of the mutation scenarios.
Loan1 == Position("loan_corporate", "USD", 2, Some(AsOf + 5))
Deposit1 == Position("deposit_retail", "RUB", 1, Some(AsOf))
ScenarioBooks == {<< >>, << Loan1 >>, << Loan1, Deposit1 >>}
AsOfDates == {AsOf, AsOf + 1}

\* Constructor arguments.  position_id: empty, whitespace only (spaces,
\* and a carriage return with a form feed), plain, padded with inner
\* whitespace, and padded by a carriage return and a no-break space.
PositionIds ==
    {<< >>, << " ", "\t" >>, << "\r", "\f" >>, << "L", "1" >>,
     << " ", "L", " ", "1", "\n" >>, << "\r", "L", "1", " " >>}
ConstructorAmounts == {-1, 0, 2}
StartDates == {AsOf - 10, AsOf, AsOf + 1}
MaturityDates == {None, Some(AsOf - 10), Some(AsOf - 1), Some(AsOf), Some(AsOf + 40)}
Rates == {None, Some(Decimal(0)), Some(Fraction(15, 100))}
RepricingDates == {None, Some(AsOf - 1), Some(AsOf)}
RepricingFrequencies == {None, Some("monthly")}

\* A schedule out of date order with an entry before as_of_date and one
\* on it.
Payment(d, principal, interest) == [date |-> d, principal |-> principal, interest |-> interest]
Schedule1 == << Payment(AsOf + 20, 1, 1), Payment(AsOf - 1, 3, 0), Payment(AsOf, 1, 2) >>
\* (is_amortizing, amortization_schedule)
Amortizations ==
    {<< FALSE, None >>, << TRUE, None >>, << TRUE, Some(<< >>) >>,
     << TRUE, Some(Schedule1) >>, << FALSE, Some(Schedule1) >>}

CommonData(ids, amounts, starts, maturities, rates, rate_types, repricings, amortizations) ==
    {[position_id |-> id, as_of_date |-> AsOf, balance_account |-> "45203",
      currency |-> "RUB", amount |-> a, start_date |-> sd, maturity_date |-> m,
      rate |-> r, rate_type |-> rt, repricing_date |-> rp[1],
      repricing_frequency |-> rp[2], is_amortizing |-> am[1],
      amortization_schedule |-> am[2]] :
        id \in ids, a \in amounts, sd \in starts, m \in maturities, r \in rates,
        rt \in rate_types, rp \in repricings, am \in amortizations}

\* Every position_id with every amount on otherwise valid and on misdated
\* arguments.
IdentityData ==
    CommonData(PositionIds, ConstructorAmounts, {AsOf - 10, AsOf + 1}, {Some(AsOf + 40)},
               {None}, {"fixed"}, {<< None, None >>}, {<< FALSE, None >>})

\* Every combination of dates, rate type and repricing on a valid identity.
DateData ==
    CommonData({<< "L", "1" >>}, {2}, StartDates, MaturityDates, {None},
               {"fixed", "floating"}, RepricingDates \X RepricingFrequencies,
               {<< FALSE, None >>})

\* Every combination of maturity, rate and amortization on valid dates.
FlowData ==
    CommonData({<< "L", "1" >>}, {-1, 2}, {AsOf - 10}, MaturityDates \ {Some(AsOf - 10)},
               Rates, {"fixed"}, {<< None, None >>, << Some(AsOf), Some("monthly") >>},
               Amortizations)

BalanceSheetData == IdentityData \cup DateData \cup FlowData

CorporateLoanData ==
    BalanceSheetData
    \cup {Merge(d, x) : d \in IdentityData,
                        x \in {[is_revolving |-> TRUE],
                               [is_revolving |-> TRUE, credit_limit |-> Some(5)],
                               [provision_amount |-> 0 - 1],
                               [asset_quality |-> "watch"],
                               [asset_quality |-> "bad"],
                               [repricing_frequency |-> Some("weekly")],
                               [instrument_type |-> "loan_retail"]}}

RetailLoanData ==
    {Merge(d, x) : d \in BalanceSheetData,
                   x \in {[product_type |-> "Mortgage", is_mortgage |-> TRUE],
                          [product_type |-> "CONSUMER", is_mortgage |-> TRUE]}}
    \cup {Merge(d, x) : d \in IdentityData,
                        x \in {[product_type |-> "lease"], [product_type |-> "AUTO"],
                               [product_type |-> "Credit_Card", is_mortgage |-> FALSE],
                               [is_mortgage |-> FALSE]}}

CorporateDepositData ==
    {Merge(d, x) : d \in BalanceSheetData,
                   x \in {[is_demand_deposit |-> FALSE], [is_demand_deposit |-> TRUE]}}

RetailDepositData ==
    {Merge(d, x) : d \in IdentityData \cup DateData,
                   x \in {[product_type |-> "Savings"],
                          [product_type |-> "CURRENT_ACCOUNT"],
                          [product_type |-> "TIME_DEPOSIT", is_insured |-> FALSE],
                          [product_type |-> "savings", amount |-> max_insurance + 1],
                          [product_type |-> "savings", amount |-> max_insurance],
                          [product_type |-> "savings", insured_amount |-> Some(1)],
                          [product_type |-> "savings", is_insured |-> FALSE,
                           insured_amount |-> Some(1)],
                          [product_type |-> "bond"]}}

PositionData ==
    {[position_id |-> id, as_of_date |-> AsOf, instrument_type |-> t,
      balance_account |-> "10601", currency |-> c, amount |-> a,
      counterparty_type |-> "other"] :
        id \in PositionIds, t \in {"equity", "swap"}, c \in {"RUB", "JPY"},
        a \in ConstructorAmounts}

\* Bond(**data): dates on the 15th and the 10th of a month; coupons that
\* end on maturity_date, before it, and that start after it; whole and
\* fractional numbers of bonds, long and short; and arguments a rule
\* rejects.  A bond that bears coupons has a next_coupon_date.
BondAsOf == BondDate(12, 15)
BondMaturities == {Some(BondDate(24, 15)), Some(BondDate(24, 10))}
NextCouponDates ==
    {None, Some(BondDate(12, 15)), Some(BondDate(13, 15)), Some(BondDate(25, 1))}
CouponRates == {Fraction(0 - 5, 100), Decimal(0), Fraction(8, 100)}
\* (is_callable, call_date)
Calls == {<< FALSE, None >>, << TRUE, None >>, << TRUE, Some(BondDate(18, 15)) >>}

BondArguments(a, m, fv, cr, cf, nc, call) ==
    [position_id |-> << "B", "1" >>, as_of_date |-> BondAsOf, balance_account |-> "50105",
     currency |-> "RUB", amount |-> a, counterparty_type |-> "government",
     start_date |-> BondDate(0, 15), maturity_date |-> m, rate_type |-> "fixed",
     bond_type |-> "government", issuer |-> "Minfin", face_value |-> fv,
     coupon_rate |-> cr, coupon_frequency |-> cf, next_coupon_date |-> nc,
     is_callable |-> call[1], call_date |-> call[2]]

BondData ==
    {BondArguments(a, m, fv, cr, "zero", None, << FALSE, None >>) :
        a \in {0 - 2, 0, 2, 3}, m \in BondMaturities, fv \in {1, 2}, cr \in CouponRates}
    \cup {BondArguments(a, m, fv, cr, cf, nc, << FALSE, None >>) :
             a \in {0 - 2, 0, 2, 3}, m \in BondMaturities, fv \in {1, 2},
             cr \in CouponRates, cf \in CouponFrequency \ {"zero"},
             nc \in NextCouponDates \ {None}}
    \cup {BondArguments(2, m, 1, Fraction(8, 100), "annual", Some(BondDate(12, 15)), call) :
             m \in BondMaturities, call \in Calls}

\* Mappings for the factory: every instrument_type as a str and as a
\* member, a str outside the enumeration, '', None and no key at all, on
\* arguments valid and invalid for the class.
InstrumentTypeArguments ==
    {Str(t) : t \in InstrumentType \cup {"invalid_type", ""}}
    \cup {Member(t) : t \in InstrumentType}
    \cup {NoneValue}

\* The arguments of a constructor as a mapping for the factory: the str
\* of an enumeration field carries its type.
AsStr(data) ==
    [k \in DOMAIN data |-> IF k \in DOMAIN EnumOf THEN Str(data[k]) ELSE data[k]]

FactoryArguments ==
    {AsStr(Merge(d, [product_type |-> "other"])) : d \in IdentityData}
    \cup {AsStr(d) : d \in {b \in BondData : b.amount = 3
                                           /\ b.coupon_frequency \in {"zero", "annual"}}}

FactoryData ==
    FactoryArguments
    \cup {Merge(d, [instrument_type |-> t]) : d \in FactoryArguments,
                                            t \in InstrumentTypeArguments}

(***************************************************************************)
(* Operations.                                                             *)
(***************************************************************************)
Call(name, after) == \E s \in {after} : Leaves(s) /\ op' = name /\ arg' = None

CalculateGap == Call("calculate_gap", calculate_gap(Self))
CalculateSummaryByCurrency ==
    Call("calculate_summary_by_currency", calculate_summary_by_currency(Self))
CalculateRatios == Call("calculate_ratios", calculate_ratios(Self))
ExportToExcel == Call("export_to_excel", export_to_excel(Self))
PrintGapReport == Call("print_gap_report", print_gap_report(Self))

\* The caller assigns an attribute; nothing else changes.
Assigned(name) ==
    /\ op' = name /\ arg' = None /\ trace' = << >> /\ raised' = None /\ ret' = None
    /\ UNCHANGED << buckets, gap_df, full_gap, summary_df >>

SetPositions ==
    \E b \in ScenarioBooks :
        /\ b # positions
        /\ positions' = b
        /\ UNCHANGED << as_of_date, fx_rates, base_currency >>
        /\ Assigned("set_positions")

SetAsOfDate ==
    \E d \in AsOfDates :
        /\ d # as_of_date
        /\ as_of_date' = d
        /\ UNCHANGED << positions, fx_rates, base_currency >>
        /\ Assigned("set_as_of_date")

SetFxRates ==
    \E m \in FxMappings :
        /\ m # fx_rates
        /\ fx_rates' = m
        /\ UNCHANGED << positions, as_of_date, base_currency >>
        /\ Assigned("set_fx_rates")

SetBaseCurrency ==
    \E c \in BaseCurrencies :
        /\ c # base_currency
        /\ base_currency' = c
        /\ UNCHANGED << positions, as_of_date, fx_rates >>
        /\ Assigned("set_base_currency")

\* A helper called on its own: the analyzer is left as it is.
Helper(name, a, r) ==
    /\ op' = name /\ arg' = Some(a) /\ ret' = Some(r)
    /\ trace' = << name >> /\ raised' = None
    /\ UNCHANGED << inputs, caches >>

\* Each helper is applied to every input on a newly constructed analyzer.
GetBucket ==
    /\ op = "__init__"
    /\ \E d \in {None} \cup {Some(n) : n \in (0 - MinDays)..MaxDays} :
        Helper("_get_bucket", d, get_bucket(buckets, d))

ClassifyPosition ==
    /\ op = "__init__"
    /\ \E t \in InstrumentType \cup {"swap"}, c \in Currency, a \in Amounts,
          k \in {"corporate", "retail"} :
        LET pos == [instrument_type |-> t, currency |-> c, amount |-> a,
                    counterparty_type |-> k, maturity_date |-> None]
        IN  Helper("_classify_position", pos, classify_position(pos))

ConvertToBaseCurrency ==
    /\ op = "__init__"
    /\ \E a \in Amounts, c \in Currency :
        Helper("_convert_to_base_currency", << a, c >>,
               convert_to_base_currency(fx_rates, base_currency, a, c))

\* cls(**data) on its own: the instance is returned, or the
\* ValidationError escapes; the analyzer is left as it is.
Construct(cls, data) ==
    /\ op = "__init__"
    /\ \E r \in {Instantiate(cls, data)} :
          /\ op' = cls /\ arg' = Some(data) /\ trace' = << cls >>
          /\ ret' = r.instance
          /\ raised' = IF r.errors = {} THEN None ELSE Some(r.errors)
    /\ UNCHANGED << inputs, caches >>

NewPosition == \E data \in PositionData : Construct("Position", data)
NewCorporateLoan == \E data \in CorporateLoanData : Construct("CorporateLoan", data)
NewRetailLoan == \E data \in RetailLoanData : Construct("RetailLoan", data)
NewCorporateDeposit == \E data \in CorporateDepositData : Construct("CorporateDeposit", data)
NewRetailDeposit == \E data \in RetailDepositData : Construct("RetailDeposit", data)

\* get_cash_flows() of the instance just constructed.
GetCashFlows ==
    /\ op \in Loans \cup Deposits
    /\ raised = None
    /\ op' = "get_cash_flows" /\ arg' = ret /\ trace' = << "get_cash_flows" >>
    /\ ret' = Some(get_cash_flows(ret[1]))
    /\ raised' = None
    /\ UNCHANGED << inputs, caches >>

\* Bond(**data) on its own.
NewBond ==
    /\ op = "__init__"
    /\ \E data \in BondData :
       \E r \in {InstantiateBond(data)} :
          /\ op' = "Bond" /\ arg' = Some(data) /\ trace' = << "Bond" >>
          /\ ret' = r.instance
          /\ raised' = IF r.errors = {} THEN None ELSE Some(r.errors)
    /\ UNCHANGED << inputs, caches >>

\* get_cash_flows() of the Bond just constructed.
GetBondCashFlows ==
    /\ op = "Bond"
    /\ raised = None
    /\ op' = "get_cash_flows" /\ arg' = ret /\ trace' = << "get_cash_flows" >>
    /\ ret' = Some(bond_get_cash_flows(ret[1]))
    /\ raised' = None
    /\ UNCHANGED << inputs, caches >>

\* What the factory gave: the instance or the error, and in `trace` the
\* class it called.
Produced(name, a, r) ==
    /\ op' = name /\ arg' = a
    /\ trace' = r.position_class
    /\ ret' = r.instance
    /\ raised' = IF r.errors = {} THEN None ELSE Some(r.errors)
    /\ UNCHANGED << inputs, caches >>

\* create_position_from_dict(data) on its own.
CreatePositionFromDict ==
    /\ op = "__init__"
    /\ \E data \in FactoryData :
       \E r \in {create_position_from_dict(data)} :
          Produced("create_position_from_dict", Some(data), r)

\* create_position_from_dict(p.dict()) for the position p just
\* constructed; `arg` keeps p and its class.
DictRoundTrip ==
    /\ op \in Classes \cup {"Bond"}
    /\ raised = None
    /\ \E r \in {create_position_from_dict(dict(ret[1]))} :
          Produced("dict_roundtrip", Some([position_class |-> op, instance |-> ret[1]]), r)

\* LiquidityGapAnalyzer(positions, as_of_date, fx_rates, base_currency):
\* `arg` keeps the as_of_date, fx_rates and base_currency arguments.
NewAnalyzer ==
    /\ op = "__init__"
    /\ \E b \in ScenarioBooks, d \in {None, Some(AsOf)}, m \in FxArguments,
          c \in BaseCurrencies :
       \E s \in {init(b, d, m, c)} :
          /\ Leaves(s)
          /\ op' = "LiquidityGapAnalyzer"
          /\ arg' = Some([as_of_date |-> d, fx_rates |-> m, base_currency |-> c])

\* _convert_to_base_currency on the analyzer just constructed; `arg`
\* keeps the constructor's fx_rates argument after the call's own.
ConvertAfterConstruction ==
    /\ op = "LiquidityGapAnalyzer"
    /\ \E a \in Amounts, c \in Currency :
          /\ op' = "_convert_to_base_currency"
          /\ arg' = Some(<< a, c, arg[1].fx_rates >>)
          /\ ret' = Some(convert_to_base_currency(fx_rates, base_currency, a, c))
          /\ trace' = << "_convert_to_base_currency" >>
          /\ raised' = None
          /\ UNCHANGED << inputs, caches >>

(***************************************************************************)
(* Specifications.                                                         *)
(*   Spec       the analyzer under method calls and attribute assignments  *)
(*   SpecGap    calculate_gap and calculate_ratios over every book         *)
(*   SpecRatios  the same over the books of the 30-day figures             *)
(*   SpecCalls  the helpers applied to their inputs                        *)
(*   SpecPositions  construction of positions and their cash flows         *)
(*   SpecFx     construction of the analyzer and conversions after it      *)
(***************************************************************************)
Init ==
    \E b \in ScenarioBooks, d \in AsOfDates, m \in FxArguments, c \in BaseCurrencies :
        Constructed(init(b, Some(d), m, c))

Next ==
    \/ CalculateGap
    \/ CalculateSummaryByCurrency
    \/ CalculateRatios
    \/ ExportToExcel
    \/ PrintGapReport
    \/ SetPositions
    \/ SetAsOfDate
    \/ SetFxRates
    \/ SetBaseCurrency

Spec == Init /\ [][Next]_vars

\* Base RUB with the default rates (USD at 95), base USD with CustomFx
\* (RUB at 1, and a rate for the base currency that is not 1).
InitGap ==
    \E b \in Books, k \in {<< None, "RUB" >>, << Some(CustomFx), "USD" >>} :
        Constructed(init(b, Some(AsOf), k[1], k[2]))

NextGap == CalculateGap \/ CalculateRatios

SpecGap == InitGap /\ [][NextGap]_vars

\* Base RUB with the default rates over the books of the 30-day figures.
InitRatios == \E b \in LiquidBooks : Constructed(init(b, Some(AsOf), None, "RUB"))

NextRatios == CalculateGap \/ CalculateRatios

SpecRatios == InitRatios /\ [][NextRatios]_vars

InitCalls ==
    \E b \in ScenarioBooks \cup {<< Position("equity", "RUB", 2, None) >>},
       m \in FxArguments, c \in BaseCurrencies :
        Constructed(init(b, Some(AsOf), m, c))

NextCalls == GetBucket \/ ClassifyPosition \/ ConvertToBaseCurrency \/ CalculateGap

SpecCalls == InitCalls /\ [][NextCalls]_vars

\* The constructors do not involve an analyzer; the variables of one over
\* the empty book are carried along.
InitPositions == Constructed(init(<< >>, Some(AsOf), None, "RUB"))

NextPositions ==
    \/ NewPosition
    \/ NewCorporateLoan
    \/ NewRetailLoan
    \/ NewCorporateDeposit
    \/ NewRetailDeposit
    \/ NewBond
    \/ GetCashFlows
    \/ GetBondCashFlows
    \/ CreatePositionFromDict
    \/ DictRoundTrip

SpecPositions == InitPositions /\ [][NextPositions]_vars

InitFx == Constructed(init(<< >>, Some(AsOf), None, "RUB"))

NextFx == NewAnalyzer \/ ConvertAfterConstruction

SpecFx == InitFx /\ [][NextFx]_vars

(***************************************************************************)
(* Properties.                                                             *)
(***************************************************************************)
RECURSIVE SumOver(_, _)
SumOver(S, f) ==
    IF S = {} THEN 0
    ELSE LET x == CHOOSE y \in S : TRUE IN f[x] + SumOver(S \ {x}, f)

Count(seq, x) == Cardinality({i \in 1..Len(seq) : seq[i] = x})

Returned(name) == op = name /\ raised = None

\* The rows of a gap table above its last row.
BucketRows(frame) == SubSeq(frame.index, 1, Len(frame.index) - 1)

\* The ten standard buckets as the specification lists them.
StandardBuckets ==
    << << "Overnight", 0, Some(0) >>, << "1-7 days", 1, Some(7) >>,
       << "8-30 days", 8, Some(30) >>, << "1-3 months", 31, Some(90) >>,
       << "3-6 months", 91, Some(180) >>, << "6-12 months", 181, Some(365) >>,
       << "1-2 years", 366, Some(730) >>, << "2-3 years", 731, Some(1095) >>,
       << "3-5 years", 1096, Some(1825) >>, << "5+ years", 1826, None >> >>

Contains(b, d) == b[2] <= d /\ (b[3] = None \/ d <= b[3][1])

\* C1: _get_bucket is total and unambiguous: a day count d >= 0 lies in
\* exactly one standard bucket, and that bucket is returned; d < 0 gives
\* 'Overdue'; None gives '5+ years'.
C1_GetBucketTotal ==
    op = "_get_bucket" =>
        LET d == arg[1]
            matching == {i \in 1..Len(StandardBuckets) : Contains(StandardBuckets[i], d[1])}
        IN  IF d = None THEN ret = Some("5+ years")
            ELSE IF d[1] < 0 THEN ret = Some("Overdue")
            ELSE /\ Cardinality(matching) = 1
                 /\ \A i \in matching : ret = Some(StandardBuckets[i][1])

C1_Witness ==
    op = "_get_bucket" /\ arg = Some(Some(1826)) /\ ret = Some("5+ years")

\* Whether a day count (None for no maturity) falls in the bucket of row r.
FallsIn(days, r) ==
    IF days = None THEN r = "5+ years"
    ELSE IF days[1] < 0 THEN r = "Overdue"
    ELSE \E i \in 1..Len(StandardBuckets) :
            StandardBuckets[i][1] = r /\ Contains(StandardBuckets[i], days[1])

\* C2: in the table calculate_gap returns, Asset (Liability) of a bucket
\* row is the sum of amount_base over the positions classified Asset
\* (Liability) whose days-to-maturity falls in that bucket, Gap = Asset -
\* Liability on every bucket row, and TOTAL holds the column sums over the
\* bucket rows; an Unknown position enters neither column.
C2_GapAggregation ==
    Returned("calculate_gap") =>
        LET frame == gap_df[1]
            rows == BucketRows(frame)
            amount_base == [i \in 1..Len(positions) |-> Data(Self)[i].amount_base]
            days(i) == IF positions[i].maturity_date = None THEN None
                       ELSE Some(positions[i].maturity_date[1] - as_of_date)
            members(r, k) == {i \in 1..Len(positions) :
                                 /\ FallsIn(days(i), r)
                                 /\ classify_position(positions[i]) = k}
            column(c) == [r \in Range(rows) |-> frame.cell[<<r, c>>]]
        IN  /\ frame.index[Len(frame.index)] = "TOTAL"
            /\ ret = gap_df
            /\ \A r \in Range(rows) :
                  /\ frame.cell[<<r, "Asset">>] = SumOver(members(r, "Asset"), amount_base)
                  /\ frame.cell[<<r, "Liability">>] =
                         SumOver(members(r, "Liability"), amount_base)
                  /\ frame.cell[<<r, "Gap">>] =
                         frame.cell[<<r, "Asset">>] - frame.cell[<<r, "Liability">>]
            /\ \A c \in {"Asset", "Liability", "Gap"} :
                  frame.cell[<<"TOTAL", c>>] = SumOver(Range(rows), column(c))

\* A bucket row holding a liability and an asset converted at a rate
\* other than 1.
C2_Witness ==
    /\ Returned("calculate_gap")
    /\ \E r \in Range(BucketRows(gap_df[1])) :
          /\ gap_df[1].cell[<<r, "Asset">>] > 2
          /\ gap_df[1].cell[<<r, "Liability">>] # 0

\* C3: Cumulative Gap of the i-th bucket row is the sum of Gap over rows
\* 1..i; TOTAL's Cumulative Gap is the last bucket row's, which is TOTAL's
\* Gap.
C3_CumulativeGap ==
    Returned("calculate_gap") =>
        LET frame == gap_df[1]
            rows == BucketRows(frame)
            gap == [i \in 1..Len(rows) |-> frame.cell[<<rows[i], "Gap">>]]
        IN  /\ \A i \in 1..Len(rows) :
                  frame.cell[<<rows[i], "Cumulative Gap">>] = SumOver(1..i, gap)
            /\ Len(rows) > 0
            /\ frame.cell[<<"TOTAL", "Cumulative Gap">>] =
                   frame.cell[<<rows[Len(rows)], "Cumulative Gap">>]
            /\ frame.cell[<<"TOTAL", "Cumulative Gap">>] = frame.cell[<<"TOTAL", "Gap">>]

C3_Witness ==
    /\ Returned("calculate_gap")
    /\ Len(gap_df[1].index) = 3
    /\ gap_df[1].cell[<<gap_df[1].index[1], "Gap">>] # 0
    /\ gap_df[1].cell[<<gap_df[1].index[2], "Gap">>] # 0
    /\ gap_df[1].cell[<<gap_df[1].index[2], "Cumulative Gap">>] # 0

\* The classification the specification gives an instrument type.
ClaimedClass(t) ==
    CASE t \in {"loan_corporate", "loan_retail", "bond"} -> "Asset"
      [] t \in {"deposit_corporate", "deposit_retail"} -> "Liability"
      [] OTHER -> "Unknown"

HasUnknown == \E i \in 1..Len(positions) : ClaimedClass(positions[i].instrument_type) = "Unknown"

\* C4: _classify_position gives Asset for loan_corporate, loan_retail and
\* bond, Liability for the two deposit types and Unknown for anything else,
\* whatever the amount, currency and counterparty; and calculate_gap on a
\* book with an Unknown position still returns its table.
C4_Classification ==
    /\ op = "_classify_position" =>
          /\ ret = Some(ClaimedClass(arg[1].instrument_type))
          /\ \A c \in Currency, a \in Amounts, k \in {"corporate", "retail"} :
                classify_position([arg[1] EXCEPT !.currency = c, !.amount = a,
                                                 !.counterparty_type = k]) = ret[1]
    /\ (op = "calculate_gap" /\ HasUnknown) => (raised = None /\ gap_df # None /\ ret = gap_df)

C4_Witness ==
    /\ op = "_classify_position"
    /\ arg[1].instrument_type = "bond" /\ arg[1].amount < 0 /\ arg[1].currency = "GBP"
    /\ ret = Some("Asset")

\* C5: every member of InstrumentType is classified Asset or Liability;
\* Unknown is returned only for a value that is not a member.
C5_ClassificationTotality ==
    op = "_classify_position" =>
        /\ arg[1].instrument_type \in InstrumentType => ret[1] \in {"Asset", "Liability"}
        /\ ret[1] = "Unknown" => arg[1].instrument_type \notin InstrumentType

\* C6: _convert_to_base_currency returns the amount unchanged for the base
\* currency, amount * fx_rates[currency] for another currency that has a
\* rate, and amount * 1 without raising for one that has none.
C6_Conversion ==
    op = "_convert_to_base_currency" =>
        LET amount == arg[1][1]
            currency == arg[1][2]
        IN  /\ raised = None
            /\ ret = Some(IF currency = base_currency THEN amount
                          ELSE IF currency \in DOMAIN fx_rates
                               THEN amount * fx_rates[currency]
                               ELSE amount * 1)

C6_Witness ==
    /\ op = "_convert_to_base_currency"
    /\ arg[1][2] # base_currency /\ arg[1][2] \notin DOMAIN fx_rates
    /\ ret = Some(arg[1][1])

\* C7: liquidity_coverage_ratio is liquid_assets / short_term_liabilities
\* whenever short_term_liabilities # 0, and +infinity exactly when it is 0.
C7_CoverageRatio ==
    Returned("calculate_ratios") =>
        LET r == ret[1]
        IN  /\ r.short_term_liabilities = LiquidSum(gap_df[1], "Liability")
            /\ r.liquidity_coverage_ratio =
                   IF r.short_term_liabilities # 0
                   THEN Quotient(r.liquid_assets, r.short_term_liabilities)
                   ELSE Infinity

\* C8: liquid_assets, short_term_liabilities and gap_30d are the sums of
\* Asset, Liability and Gap over the rows Overnight, 1-7 days, 8-30 days
\* present in the cached table; cumulative_gap_30d = gap_30d =
\* liquid_assets - short_term_liabilities; the totals are TOTAL's.
C8_Ratios ==
    Returned("calculate_ratios") =>
        LET frame == gap_df[1]
            r == ret[1]
            present == {"Overnight", "1-7 days", "8-30 days"} \cap Range(frame.index)
            column(c) == [b \in present |-> frame.cell[<<b, c>>]]
        IN  /\ r.liquid_assets = SumOver(present, column("Asset"))
            /\ r.short_term_liabilities = SumOver(present, column("Liability"))
            /\ r.gap_30d = SumOver(present, column("Gap"))
            /\ r.gap_30d = r.liquid_assets - r.short_term_liabilities
            /\ r.cumulative_gap_30d = r.gap_30d
            /\ r.total_assets = frame.cell[<<"TOTAL", "Asset">>]
            /\ r.total_liabilities = frame.cell[<<"TOTAL", "Liability">>]

\* Loans of 2 RUB in Overnight and in 1-7 days and a deposit of 2 USD (190
\* RUB) in 8-30 days: the three liquid rows are present, liquid_assets is
\* the sum of two of them and gap_30d the sum of all three.
C8_Witness ==
    /\ Returned("calculate_ratios")
    /\ {"Overnight", "1-7 days", "8-30 days"} \subseteq Range(gap_df[1].index)
    /\ gap_df[1].cell[<<"Overnight", "Asset">>] = 2
    /\ gap_df[1].cell[<<"1-7 days", "Asset">>] = 2
    /\ gap_df[1].cell[<<"8-30 days", "Liability">>] = 190
    /\ ret[1].liquid_assets = 4
    /\ ret[1].short_term_liabilities = 190
    /\ ret[1].gap_30d = 0 - 186

LazyOperations == {"calculate_ratios", "export_to_excel", "print_gap_report"}

\* C9: calculate_ratios, export_to_excel and print_gap_report invoke
\* calculate_gap if and only if gap_df is None when they are called, and
\* export_to_excel invokes calculate_summary_by_currency if and only if
\* summary_df is None; a cache that is set is left unchanged.
C9_LazyMemoization ==
    [][op' \in LazyOperations =>
          /\ Count(trace', "calculate_gap") = (IF gap_df = None THEN 1 ELSE 0)
          /\ op' = "export_to_excel" =>
                Count(trace', "calculate_summary_by_currency") =
                    (IF summary_df = None THEN 1 ELSE 0)
          /\ op' # "export_to_excel" =>
                Count(trace', "calculate_summary_by_currency") = 0
          /\ gap_df # None => (gap_df' = gap_df /\ full_gap' = full_gap)
          /\ summary_df # None => summary_df' = summary_df]_vars

\* An analyzer on which nothing has been computed, with the inputs of the
\* current one.
Fresh == [Self EXCEPT !.gap_df = None, !.full_gap = None, !.summary_df = None]

\* C10: every calculate_gap overwrites gap_df and full_gap with the tables
\* of the current positions, as_of_date, fx_rates and base_currency: what
\* the latest call leaves is what a fresh analyzer with these inputs
\* computes.
C10_RecomputeOverwrites ==
    op = "calculate_gap" =>
        /\ gap_df = calculate_gap(Fresh).gap_df
        /\ full_gap = calculate_gap(Fresh).full_gap

Assignments == {"set_positions", "set_as_of_date", "set_fx_rates", "set_base_currency"}

\* C11: the cache is never invalidated implicitly: assigning positions,
\* as_of_date, fx_rates or base_currency leaves gap_df as it is, and a
\* calculate_ratios called while gap_df is set returns the ratios of that
\* table, without calling calculate_gap, and leaves gap_df that table.
C11_NoImplicitInvalidation ==
    [][/\ op' \in Assignments => caches' = caches
       /\ (op' = "calculate_ratios" /\ gap_df # None) =>
              /\ raised' = None
              /\ gap_df' = gap_df
              /\ ret' = Some(Ratios(gap_df[1]))
              /\ trace' = << "calculate_ratios" >>]_vars

\* calculate_ratios has answered from a table that the current inputs
\* would no longer produce.
C11_Witness ==
    /\ Returned("calculate_ratios")
    /\ gap_df # None
    /\ gap_df # calculate_gap(Fresh).gap_df
    /\ ret = Some(Ratios(gap_df[1]))
    /\ calculate_gap(Fresh).raised = None
    /\ ret # Some(Ratios(calculate_gap(Fresh).gap_df[1]))

EngineOperations == {"calculate_gap", "calculate_summary_by_currency", "calculate_ratios"}

\* C12: calculate_gap, calculate_summary_by_currency and calculate_ratios
\* only read their inputs: the positions collection (its entries, their
\* order and every field), as_of_date, fx_rates, base_currency and the
\* buckets are the same after the call, whether it returns or raises;
\* calculate_gap writes gap_df and full_gap only, and
\* calculate_summary_by_currency writes summary_df only.
C12_ReadOnlyInputs ==
    [][op' \in EngineOperations =>
          /\ inputs' = inputs
          /\ op' = "calculate_gap" => summary_df' = summary_df
          /\ op' = "calculate_summary_by_currency" =>
                (gap_df' = gap_df /\ full_gap' = full_gap)]_vars

\* calculate_ratios has computed the table through calculate_gap from a
\* book holding a position that was converted at a rate other than 1, and
\* the position still carries its own amount.
C12_Witness ==
    /\ Returned("calculate_ratios")
    /\ trace = << "calculate_ratios", "calculate_gap" >>
    /\ \E i \in 1..Len(positions) :
          /\ positions[i].currency # base_currency
          /\ positions[i].amount = 2
          /\ Data(Self)[i].amount_base > 2
          /\ ret[1].total_assets = Data(Self)[i].amount_base

\* The order of the bucket rows as the specification gives it.
CanonicalOrder ==
    << "Overnight", "1-7 days", "8-30 days", "1-3 months", "3-6 months",
       "6-12 months", "1-2 years", "2-3 years", "3-5 years", "5+ years", "Overdue" >>

CanonicalPos(r) == CHOOSE n \in 1..Len(CanonicalOrder) : CanonicalOrder[n] = r

\* The day count of position i as the specification defines it.
DaysOf(i) ==
    IF positions[i].maturity_date = None THEN None
    ELSE Some(positions[i].maturity_date[1] - as_of_date)

\* C13: the bucket rows of the gap table are exactly the buckets to which
\* at least one position was assigned, in the canonical order (Overdue
\* after 5+ years), and the TOTAL row is last.
C13_CanonicalRowOrder ==
    Returned("calculate_gap") =>
        LET frame == gap_df[1]
            rows == BucketRows(frame)
            assigned == {r \in Range(CanonicalOrder) :
                            \E i \in 1..Len(positions) : FallsIn(DaysOf(i), r)}
        IN  /\ frame.index[Len(frame.index)] = "TOTAL"
            /\ "TOTAL" \notin Range(rows)
            /\ Range(rows) = assigned
            /\ \A i, j \in 1..Len(rows) :
                  i < j => CanonicalPos(rows[i]) < CanonicalPos(rows[j])

\* A table whose book lists an overdue position before a later-maturing
\* one: the rows come out in canonical order, Overdue last.
C13_Witness ==
    /\ Returned("calculate_gap")
    /\ Len(positions) = 2
    /\ DaysOf(1) # None /\ DaysOf(1)[1] < 0
    /\ DaysOf(2) # None /\ DaysOf(2)[1] > 30
    /\ gap_df[1].index = << "1-3 months", "Overdue", "TOTAL" >>

\* A position for which a lookup takes its default: an Unknown
\* classification, a currency without a rate, or a maturity before
\* as_of_date.
Degraded(i) ==
    \/ ClaimedClass(positions[i].instrument_type) = "Unknown"
    \/ (positions[i].currency # base_currency /\ positions[i].currency \notin DOMAIN fx_rates)
    \/ (DaysOf(i) # None /\ DaysOf(i)[1] < 0)

\* The book without its degraded positions, and the table of that book.
Sound == SelectSeq([i \in 1..Len(positions) |-> << i, positions[i] >>],
                   LAMBDA e : ~Degraded(e[1]))
SoundBook == [n \in 1..Len(Sound) |-> Sound[n][2]]
SoundTable == calculate_gap([Fresh EXCEPT !.positions = SoundBook]).gap_df[1]

\* What a degraded position adds to the cell (r, c): its amount at the rate
\* found, or at 1 when there is none.
DegradedShare(r, c) ==
    LET share == [i \in 1..Len(positions) |->
                     IF positions[i].currency = base_currency THEN positions[i].amount
                     ELSE IF positions[i].currency \in DOMAIN fx_rates
                          THEN positions[i].amount * fx_rates[positions[i].currency]
                          ELSE positions[i].amount]
    IN  SumOver({i \in 1..Len(positions) :
                    /\ Degraded(i)
                    /\ FallsIn(DaysOf(i), r)
                    /\ ClaimedClass(positions[i].instrument_type) = c}, share)

\* C14: on a non-empty book calculate_gap returns a table with a TOTAL row
\* whatever positions are degraded, and every row of the table that the
\* book without the degraded positions would give is in it, its Asset and
\* Liability differing only by what the degraded positions of that bucket
\* and classification add.
C14_GracefulDegradation ==
    (op = "calculate_gap" /\ Len(positions) > 0) =>
        /\ raised = None
        /\ ret = gap_df
        /\ gap_df # None
        /\ "TOTAL" \in Range(gap_df[1].index)
        /\ Len(SoundBook) > 0 =>
              \A r \in Range(BucketRows(SoundTable)), c \in {"Asset", "Liability"} :
                  /\ r \in Range(BucketRows(gap_df[1]))
                  /\ gap_df[1].cell[<<r, c>>] =
                         SoundTable.cell[<<r, c>>] + DegradedShare(r, c)

\* A table in which a sound asset shares its bucket with an asset in a
\* currency without a rate.
C14_Witness ==
    /\ Returned("calculate_gap")
    /\ Len(positions) = 2
    /\ Degraded(1) /\ ~Degraded(2)
    /\ positions[1].currency \notin DOMAIN fx_rates
    /\ gap_df[1].index = << "Overnight", "TOTAL" >>
    /\ DegradedShare("Overnight", "Asset") # 0
    /\ SoundTable.cell[<< "Overnight", "Asset" >>] # 0

\* C15: the table calculate_gap returns has exactly the columns Asset,
\* Liability, Gap and Cumulative Gap, and its rows are bucket names in
\* canonical order followed by TOTAL, for every book.
C15_TableShape ==
    Returned("calculate_gap") =>
        LET frame == gap_df[1]
            rows == BucketRows(frame)
        IN  /\ Range(frame.columns) = {"Asset", "Liability", "Gap", "Cumulative Gap"}
            /\ Len(frame.columns) = 4
            /\ frame.index[Len(frame.index)] = "TOTAL"
            /\ Range(rows) \subseteq Range(CanonicalOrder)
            /\ \A i, j \in 1..Len(rows) :
                  i < j => CanonicalPos(rows[i]) < CanonicalPos(rows[j])

\* The entry of a full pivot labelled `label` for bucket b, whichever axis
\* carries the label.
FullEntry(full, label, b) ==
    IF label \in Range(full.index) /\ b \in Range(full.columns)
    THEN Some(full.cell[<<label, b>>])
    ELSE IF label \in Range(full.columns) /\ b \in Range(full.index)
         THEN Some(full.cell[<<b, label>>])
         ELSE None

\* C16: full_gap has one row per instrument type present in the book, its
\* columns are the populated buckets plus Gap and Cumulative Gap, and its
\* Gap and Cumulative Gap of a bucket are those of the bucketed gap table.
C16_FullPivot ==
    Returned("calculate_gap") =>
        LET full == full_gap[1]
            frame == gap_df[1]
            populated == Range(BucketRows(frame))
            types == {positions[i].instrument_type : i \in 1..Len(positions)}
        IN  /\ \A b \in populated :
                  /\ FullEntry(full, "Gap", b) = Some(frame.cell[<<b, "Gap">>])
                  /\ FullEntry(full, "Cumulative Gap", b) =
                         Some(frame.cell[<<b, "Cumulative Gap">>])
            /\ Range(full.index) = types
            /\ Len(full.index) = Cardinality(types)
            /\ Range(full.columns) = populated \cup {"Gap", "Cumulative Gap"}

\* The messages of the ValidationError that escaped.
Messages == {e.msg : e \in raised[1]}

\* Whether a position_id is empty or whitespace only, and the id without
\* its surrounding whitespace.
Blank(id) == \A i \in 1..Len(id) : id[i] \in Whitespace
Trimmed(id) ==
    LET first == CHOOSE i \in 1..Len(id) :
                     id[i] \notin Whitespace /\ Blank(SubSeq(id, 1, i - 1))
        last == CHOOSE j \in 1..Len(id) :
                    id[j] \notin Whitespace /\ Blank(SubSeq(id, j + 1, Len(id)))
    IN  SubSeq(id, first, last)

\* C17: constructing any position variant with amount = 0 fails with
\* 'Amount cannot be zero', and with an empty or whitespace-only
\* position_id fails with 'Position ID cannot be empty', no instance being
\* produced; an instance that is produced carries the position_id trimmed
\* and the amount given, which is not 0 and may be negative.
C17_IdentityValidation ==
    op \in Classes =>
        LET data == arg[1]
        IN  /\ data.amount = 0 =>
                  (ret = None /\ raised # None /\ "Amount cannot be zero" \in Messages)
            /\ Blank(data.position_id) =>
                  (ret = None /\ raised # None /\ "Position ID cannot be empty" \in Messages)
            /\ ret = None <=> raised # None
            /\ ret # None =>
                  /\ ret[1].position_id = Trimmed(data.position_id)
                  /\ ret[1].amount = data.amount
                  /\ ret[1].amount # 0

\* A deposit with a negative amount and a padded position_id was
\* constructed, and carries the id without the padding.
C17_Witness ==
    /\ op = "CorporateDeposit"
    /\ ret # None
    /\ arg[1].position_id = << " ", "L", " ", "1", "\n" >>
    /\ ret[1].position_id = << "L", " ", "1" >>
    /\ ret[1].amount < 0

\* The four rules of a BalanceSheetInstrument on the constructor arguments,
\* with the message of each.
DateRules(data) ==
    << << data.start_date <= data.as_of_date, "start_date cannot be after as_of_date" >>,
       << data.maturity_date = None \/ data.maturity_date[1] > data.start_date,
          "maturity_date must be after start_date" >>,
       << data.repricing_date = None \/ data.repricing_date[1] >= data.as_of_date,
          "repricing_date cannot be before as_of_date" >>,
       << data.rate_type = "floating" =>
              (data.repricing_frequency # None /\ data.repricing_date # None),
          IF data.repricing_frequency = None
          THEN "floating rate requires repricing_frequency"
          ELSE "floating rate requires repricing_date" >> >>

\* The rules of DateRules(data) that data violates, by their place.
Violated(data) == {n \in 1..Len(DateRules(data)) : ~DateRules(data)[n][1]}

\* The first of a non-empty set of places.
First(places) == CHOOSE n \in places : \A m \in places : n <= m

\* C18 as stated: constructing a BalanceSheetInstrument variant succeeds
\* only if all four rules hold, and violating any one of them makes
\* construction fail, with no instance, and with the message of that rule.
C18_EveryViolatedRuleReported ==
    op \in Loans \cup Deposits =>
        /\ ret # None => Violated(arg[1]) = {}
        /\ \A n \in Violated(arg[1]) :
              /\ ret = None /\ raised # None
              /\ DateRules(arg[1])[n][2] \in Messages

\* C18: constructing a BalanceSheetInstrument variant succeeds only if
\* start_date <= as_of_date, maturity_date (when present) > start_date,
\* repricing_date (when present) >= as_of_date and a floating rate comes
\* with repricing_frequency and repricing_date; when a rule is violated no
\* instance is produced.  When every field is valid by itself the error
\* carries one message, that of the first violated rule in the order
\* above; when a field is not, the error carries the field errors only
\* and the message of no rule.
C18_DateAndRateValidation ==
    op \in Loans \cup Deposits =>
        LET rules == DateRules(arg[1])
            violated == Violated(arg[1])
        IN  /\ ret # None => violated = {}
            /\ violated # {} =>
                  /\ ret = None /\ raised # None
                  /\ IF FieldErrors(op, arg[1]) = {}
                     THEN Messages = {rules[First(violated)][2]}
                     ELSE /\ Messages = {e.msg : e \in FieldErrors(op, arg[1])}
                          /\ \A n \in 1..Len(rules) : rules[n][2] \notin Messages

\* A loan whose start_date is after as_of_date and whose maturity_date is
\* not after its start_date was refused with the start_date message alone.
C18_Witness ==
    /\ op = "CorporateLoan"
    /\ arg[1].start_date > arg[1].as_of_date
    /\ arg[1].maturity_date # None
    /\ arg[1].maturity_date[1] <= arg[1].start_date
    /\ ret = None
    /\ Messages = {"start_date cannot be after as_of_date"}

\* Whether the fraction f is n / d.
Is(f, n, d) == f.den # 0 /\ f.num * d = n * f.den

IsLoan(instance) == instance.instrument_type \in {"loan_corporate", "loan_retail"}

\* C19: get_cash_flows of a loan that is not amortizing is empty when
\* maturity_date is absent, and otherwise one record dated maturity_date
\* with principal = amount, interest = amount * rate * days / 365 for
\* days = maturity_date - as_of_date (0 when rate is None or 0) and
\* total = principal + interest.
C19_BulletLoan ==
    (op = "get_cash_flows" /\ IsLoan(arg[1]) /\ ~arg[1].is_amortizing) =>
        LET loan == arg[1]
            flows == ret[1]
            days == loan.maturity_date[1] - loan.as_of_date
            rate == IF loan.rate = None THEN [num |-> 0, den |-> 1] ELSE loan.rate[1]
        IN  IF loan.maturity_date = None THEN flows = << >>
            ELSE /\ Len(flows) = 1
                 /\ flows[1].date = loan.maturity_date[1]
                 /\ Is(flows[1].principal, loan.amount, 1)
                 /\ Is(flows[1].interest, loan.amount * rate.num * days, rate.den * 365)
                 /\ Is(flows[1].total,
                       loan.amount * rate.den * 365 + loan.amount * rate.num * days,
                       rate.den * 365)

\* A bullet loan of 2 at 15% maturing in 40 days: interest 12/365.
C19_Witness ==
    /\ op = "get_cash_flows"
    /\ IsLoan(arg[1]) /\ ~arg[1].is_amortizing
    /\ arg[1].amount = 2
    /\ arg[1].maturity_date = Some(arg[1].as_of_date + 40)
    /\ Len(ret[1]) = 1
    /\ ret[1][1].interest = [num |-> 12, den |-> 365]
    /\ ret[1][1].total = [num |-> 742, den |-> 365]

\* The entries of a schedule dated on or after d, in schedule order.
RECURSIVE Due(_, _)
Due(schedule, d) ==
    IF schedule = << >> THEN << >>
    ELSE IF Head(schedule).date >= d THEN << Head(schedule) >> \o Due(Tail(schedule), d)
         ELSE Due(Tail(schedule), d)

\* C20: get_cash_flows of a loan with is_amortizing and a non-empty
\* amortization_schedule is one record per schedule entry dated on or
\* after as_of_date, in schedule order, with that entry's date, principal
\* and interest and total = principal + interest.
C20_AmortizingLoan ==
    (/\ op = "get_cash_flows"
     /\ IsLoan(arg[1])
     /\ arg[1].is_amortizing
     /\ arg[1].amortization_schedule # None
     /\ arg[1].amortization_schedule[1] # << >>) =>
        LET due == Due(arg[1].amortization_schedule[1], arg[1].as_of_date)
            flows == ret[1]
        IN  /\ Len(flows) = Len(due)
            /\ \A i \in 1..Len(due) :
                  /\ flows[i].date = due[i].date
                  /\ Is(flows[i].principal, due[i].principal, 1)
                  /\ Is(flows[i].interest, due[i].interest, 1)
                  /\ Is(flows[i].total, due[i].principal + due[i].interest, 1)

IsDeposit(instance) == instance.instrument_type \in {"deposit_corporate", "deposit_retail"}

\* C21: get_cash_flows of a deposit is empty when maturity_date is absent,
\* demand deposit or not, and otherwise one record dated maturity_date
\* with principal = -amount, interest = -(amount * rate * days / 365) for
\* days = maturity_date - as_of_date (0 when rate is None or 0) and
\* total = -(amount + amount * rate * days / 365) = principal + interest.
C21_DepositCashFlows ==
    (op = "get_cash_flows" /\ IsDeposit(arg[1])) =>
        LET deposit == arg[1]
            flows == ret[1]
            days == deposit.maturity_date[1] - deposit.as_of_date
            rate == IF deposit.rate = None THEN [num |-> 0, den |-> 1] ELSE deposit.rate[1]
        IN  IF deposit.maturity_date = None THEN flows = << >>
            ELSE /\ Len(flows) = 1
                 /\ flows[1].date = deposit.maturity_date[1]
                 /\ Is(flows[1].principal, 0 - deposit.amount, 1)
                 /\ Is(flows[1].interest, 0 - (deposit.amount * rate.num * days),
                       rate.den * 365)
                 /\ Is(flows[1].total,
                       0 - (deposit.amount * rate.den * 365
                            + deposit.amount * rate.num * days),
                       rate.den * 365)
                 /\ flows[1].total.num * flows[1].principal.den * flows[1].interest.den =
                        (flows[1].principal.num * flows[1].interest.den
                         + flows[1].interest.num * flows[1].principal.den)
                        * flows[1].total.den

\* A term deposit of 2 at 15% maturing in 40 days: interest -12/365.
C21_Witness ==
    /\ op = "get_cash_flows"
    /\ IsDeposit(arg[1])
    /\ arg[1].amount = 2
    /\ arg[1].maturity_date = Some(arg[1].as_of_date + 40)
    /\ Len(ret[1]) = 1
    /\ ret[1][1].principal = [num |-> 0 - 2, den |-> 1]
    /\ ret[1][1].interest = [num |-> 0 - 12, den |-> 365]
    /\ ret[1][1].total = [num |-> 0 - 742, den |-> 365]

\* The class the hierarchy has for an instrument type.
Variant(t) ==
    CASE t = "loan_corporate" -> "CorporateLoan"
      [] t = "loan_retail" -> "RetailLoan"
      [] t = "deposit_corporate" -> "CorporateDeposit"
      [] t = "deposit_retail" -> "RetailDeposit"
      [] t = "bond" -> "Bond"

SupportedInstruments ==
    {"loan_corporate", "loan_retail", "deposit_corporate", "deposit_retail", "bond"}

\* What the constructor of the class makes of the arguments.
Direct(cls, data) == IF cls = "Bond" THEN InstantiateBond(data) ELSE Instantiate(cls, data)

\* C22: for a mapping whose instrument_type is one of loan_corporate,
\* loan_retail, deposit_corporate, deposit_retail and bond, given as a str
\* or as a member, and whose arguments the class of that instrument
\* (CorporateLoan, RetailLoan, CorporateDeposit, RetailDeposit, Bond)
\* accepts, create_position_from_dict calls that class and returns its
\* instance, of that instrument_type.
C22_FactoryVariants ==
    (/\ op = "create_position_from_dict"
     /\ "instrument_type" \in DOMAIN arg[1]
     /\ arg[1].instrument_type.value \in SupportedInstruments) =>
        LET t == arg[1].instrument_type.value
            direct == Direct(Variant(t), EnumValues(arg[1]))
        IN  direct.errors = {} =>
               /\ raised = None
               /\ trace = Some(Variant(t))
               /\ ret = direct.instance
               /\ ret[1].instrument_type = t

\* C23: create_position_from_dict(p.dict()) of a valid position p succeeds
\* and returns a position of the class of p with the position_id, amount,
\* rate and maturity_date of p.
C23_DictRoundTrip ==
    op = "dict_roundtrip" =>
        LET p == arg[1].instance
        IN  /\ raised = None
            /\ ret # None
            /\ trace = Some(arg[1].position_class)
            /\ \A f \in {"position_id", "amount", "rate", "maturity_date"} \cap DOMAIN p :
                  f \in DOMAIN ret[1] /\ ret[1][f] = p[f]

\* The members of InstrumentType the hierarchy has no class for.
Classless == {"equity", "cash", "other"}

\* C24: create_position_from_dict constructs nothing and fails with
\* 'instrument_type is required' when the key is missing or its value is
\* None or '', with 'Unknown instrument_type' when the value is a str
\* outside InstrumentType, and with 'No class mapping for instrument_type'
\* when it is a member (or the value of one) without a position class.
C24_UnusableInstrumentType ==
    op = "create_position_from_dict" =>
        LET data == arg[1]
            absent == \/ "instrument_type" \notin DOMAIN data
                      \/ data.instrument_type.type = "NoneType"
                      \/ data.instrument_type.value = ""
            failed(message) ==
                /\ ret = None
                /\ trace = None
                /\ raised # None
                /\ Messages = {message}
        IN  /\ absent => failed("instrument_type is required")
            /\ (~absent /\ data.instrument_type.value \notin InstrumentType) =>
                  failed("Unknown instrument_type")
            /\ (~absent /\ data.instrument_type.value \in Classless) =>
                  failed("No class mapping for instrument_type")

C24_Witness ==
    /\ op = "create_position_from_dict"
    /\ arg[1].position_id = << "L", "1" >>
    /\ arg[1].amount = 2
    /\ "instrument_type" \in DOMAIN arg[1]
    /\ arg[1].instrument_type = Str("invalid_type")
    /\ ret = None
    /\ raised # None

\* C25: RetailDeposit(**data) fails exactly when it fails with is_insured
\* = False; when it succeeds, an insured_amount given is kept, an
\* insured_amount not given is min(amount, 1400000) if is_insured (the
\* default) and stays None if not.
C25_InsuredAmount ==
    op = "RetailDeposit" =>
        LET data == arg[1]
            is_insured == IF "is_insured" \in DOMAIN data THEN data.is_insured ELSE TRUE
            given == "insured_amount" \in DOMAIN data /\ data.insured_amount # None
            uninsured == Instantiate("RetailDeposit", Merge(data, [is_insured |-> FALSE]))
        IN  /\ (raised = None) <=> (uninsured.errors = {})
            /\ raised = None =>
                  /\ ret[1].amount = data.amount
                  /\ IF given THEN ret[1].insured_amount = data.insured_amount
                     ELSE IF is_insured
                     THEN \E cap \in {1400000} :
                             ret[1].insured_amount =
                                 Some(IF data.amount <= cap THEN data.amount ELSE cap)
                     ELSE ret[1].insured_amount = None

C25_Witness ==
    /\ op = "RetailDeposit"
    /\ raised = None
    /\ "is_insured" \notin DOMAIN arg[1]
    /\ "insured_amount" \notin DOMAIN arg[1]
    /\ arg[1].amount = 2
    /\ ret[1].insured_amount = Some(2)

IsBond(instance) == instance.instrument_type = "bond"

\* The months between two coupons of a coupon-bearing bond.
Interval(bond) ==
    CASE bond.coupon_frequency = "quarterly" -> 3
      [] bond.coupon_frequency = "semiannual" -> 6
      [] bond.coupon_frequency = "annual" -> 12

\* More coupons than any bond of the inputs pays.
MaxCoupons == 12

\* flows is n coupon records on the coupon dates from next_coupon_date to
\* maturity_date inclusive, each with principal 0 and an interest that
\* satisfies Paid, and after them one maturity record with principal =
\* amount and interest 0.
CouponsThenMaturity(bond, flows, Paid(_)) ==
    \E n \in 0..MaxCoupons :
        /\ Len(flows) = n + 1
        /\ AddMonths(bond.next_coupon_date[1], n * Interval(bond)) > bond.maturity_date[1]
        /\ \A i \in 1..n :
              /\ flows[i].date = AddMonths(bond.next_coupon_date[1], (i - 1) * Interval(bond))
              /\ flows[i].date <= bond.maturity_date[1]
              /\ flows[i].type = "coupon"
              /\ Is(flows[i].principal, 0, 1)
              /\ Paid(flows[i].interest)
        /\ flows[n + 1].date = bond.maturity_date[1]
        /\ flows[n + 1].type = "maturity"
        /\ Is(flows[n + 1].principal, bond.amount, 1)
        /\ Is(flows[n + 1].interest, 0, 1)

\* C26 as claimed: the records of a coupon-bearing Bond are one coupon
\* record per coupon date from next_coupon_date to maturity_date
\* inclusive, 3, 6 or 12 months apart, with principal = 0 and interest >
\* 0, and last one separate maturity record dated maturity_date with
\* principal = amount and interest = 0.
C26_CouponBondPositiveInterest ==
    (op = "get_cash_flows" /\ IsBond(arg[1]) /\ arg[1].coupon_frequency # "zero") =>
        CouponsThenMaturity(arg[1], ret[1], LAMBDA interest : interest.num > 0)

\* C26: the same, with the interest of every coupon record equal to
\* face_value * coupon_rate / payments_per_year * (amount / face_value),
\* which is positive exactly when amount and coupon_rate are.
C26_CouponBond ==
    (op = "get_cash_flows" /\ IsBond(arg[1]) /\ arg[1].coupon_frequency # "zero") =>
        LET bond == arg[1]
            payments_per_year == 12 \div Interval(bond)
        IN  CouponsThenMaturity(bond, ret[1], LAMBDA interest :
                /\ Is(interest, bond.face_value * bond.coupon_rate.num * bond.amount,
                      payments_per_year * bond.coupon_rate.den * bond.face_value)
                /\ (interest.num > 0) <=> (bond.amount > 0 /\ bond.coupon_rate.num > 0))

\* A semiannual bond whose third coupon falls on maturity_date: four
\* records, the last two on the same date.
C26_Witness ==
    /\ op = "get_cash_flows"
    /\ IsBond(arg[1])
    /\ arg[1].coupon_frequency = "semiannual"
    /\ arg[1].amount = 3 /\ arg[1].face_value = 2
    /\ arg[1].coupon_rate = Fraction(8, 100)
    /\ Len(ret[1]) = 4
    /\ ret[1][3].date = arg[1].maturity_date[1]
    /\ ret[1][3].type = "coupon"
    /\ ret[1][4].date = arg[1].maturity_date[1]
    /\ ret[1][4].type = "maturity"

\* C27: the records of a zero-coupon Bond (coupon_frequency zero,
\* coupon_rate 0) are exactly one, dated maturity_date, of type
\* 'maturity', with principal = amount and interest = 0.
C27_ZeroCouponBond ==
    (/\ op = "get_cash_flows"
     /\ IsBond(arg[1])
     /\ arg[1].coupon_frequency = "zero"
     /\ arg[1].coupon_rate.num = 0) =>
        /\ Len(ret[1]) = 1
        /\ ret[1][1].date = arg[1].maturity_date[1]
        /\ ret[1][1].type = "maturity"
        /\ Is(ret[1][1].principal, arg[1].amount, 1)
        /\ Is(ret[1][1].interest, 0, 1)

C27_Witness ==
    /\ op = "get_cash_flows"
    /\ IsBond(arg[1])
    /\ arg[1].coupon_frequency = "zero"
    /\ arg[1].amount = 3 /\ arg[1].face_value = 2
    /\ Len(ret[1]) = 1
    /\ ret[1][1].principal = Decimal(3)

\* C28: the analyzer constructed with a mapping for fx_rates holds that
\* mapping, and DEFAULT_FX_RATES only when fx_rates is None; so after a
\* construction with any mapping, the empty one too, an amount in a
\* currency that is not the base currency and not in that mapping is
\* converted at rate 1.
C28_SuppliedFxRates ==
    /\ op = "LiquidityGapAnalyzer" =>
          fx_rates = (IF arg[1].fx_rates = None THEN DEFAULT_FX_RATES
                      ELSE arg[1].fx_rates[1])
    /\ (/\ op = "_convert_to_base_currency"
        /\ arg[1][3] # None
        /\ arg[1][2] # base_currency
        /\ arg[1][2] \notin DOMAIN arg[1][3][1]) => ret = Some(arg[1][1] * 1)

\* C29: on an empty position collection calculate_gap raises nothing and
\* returns a table whose only row is TOTAL, with Asset, Liability, Gap and
\* Cumulative Gap all 0, and calculate_ratios raises nothing and returns
\* liquidity_coverage_ratio = +infinity and 0 for every other ratio.
C29_EmptyBook ==
    /\ (op = "calculate_gap" /\ positions = << >>) =>
          /\ raised = None
          /\ gap_df # None
          /\ ret = gap_df
          /\ gap_df[1].index = << "TOTAL" >>
          /\ \A c \in {"Asset", "Liability", "Gap", "Cumulative Gap"} :
                /\ c \in Range(gap_df[1].columns)
                /\ gap_df[1].cell[<< "TOTAL", c >>] = 0
    /\ (op = "calculate_ratios" /\ positions = << >>) =>
          /\ raised = None
          /\ ret # None
          /\ ret[1].liquidity_coverage_ratio = Infinity
          /\ \A k \in DOMAIN ret[1] \ {"liquidity_coverage_ratio"} : ret[1][k] = 0

\* The book with the positions at places i and i + 1 exchanged, for every
\* i.  Every permutation of a book is a chain of such exchanges, and every
\* book of the chain is the book of a state.
Rearrangements(book) ==
    {[k \in 1..Len(book) |->
         IF k = i THEN book[i + 1] ELSE IF k = i + 1 THEN book[i] ELSE book[k]] :
        i \in 1..(Len(book) - 1)}

\* C30: calculate_gap on an analyzer whose positions are those of this one
\* with two neighbours exchanged (and so, along a chain of exchanges, in
\* any other order), with the same as_of_date, fx_rates and base_currency,
\* returns the same table (rows and their order, columns, every cell,
\* TOTAL) or raises the same, and calculate_ratios returns the same
\* mapping.
C30_OrderIndependence ==
    op \in {"calculate_gap", "calculate_ratios"} =>
        \A book \in Rearrangements(positions) :
            LET other == [Fresh EXCEPT !.positions = book]
                after == IF op = "calculate_gap" THEN calculate_gap(other)
                         ELSE calculate_ratios(other)
            IN  /\ after.raised = raised
                /\ after.ret = ret
                /\ after.gap_df = gap_df

\* Two different positions that share a bucket and a class, so that a
\* cell of the table sums over both.
C30_Witness ==
    /\ op = "calculate_gap"
    /\ raised = None
    /\ Len(positions) = 2
    /\ positions[1] # positions[2]
    /\ positions[1].amount # positions[2].amount
    /\ classify_position(positions[1]) = "Asset"
    /\ classify_position(positions[2]) = "Asset"
    /\ positions[1].maturity_date = positions[2].maturity_date
    /\ ret[1].cell[<< "TOTAL", "Asset" >>] # 0

====
